---- MODULE Spec2Model ----
(***************************************************************************)
(* redux-routable: route configuration, location <-> route translation    *)
(* and the dispatch-intercepting middleware                                *)
(* (packages/redux-routable/src/index.js).                                 *)
(*                                                                         *)
(* Encoding of strings.  A pathname is the sequence of the segments that   *)
(* follow each "/" of the string: "" is <<>>, "/" is <<"">>, "/a" is       *)
(* <<"a">>, "/a/" is <<"a", "">>.  String concatenation of two such paths  *)
(* is sequence concatenation.  A path template is the sequence of tokens   *)
(* path-to-regexp parses it into, one token per segment.  A query string   *)
(* is the sequence of its key=value pairs.                                 *)
(***************************************************************************)
EXTENDS Integers, Sequences, FiniteSets, TLC

\* the JavaScript value undefined, in a slot that otherwise holds an object
undefined == [undefined |-> TRUE]
\* the JavaScript value undefined, in a slot that otherwise holds a string
undefinedStr == "undefined"

(***************************************************************************)
(* path-to-regexp                                                          *)
(***************************************************************************)
Lit(s) == [kind |-> "lit", seg |-> s, name |-> "", optional |-> FALSE]
Param(n) == [kind |-> "param", seg |-> "", name |-> n, optional |-> FALSE]
OptParam(n) == [kind |-> "param", seg |-> "", name |-> n, optional |-> TRUE]

\* the regular expressions are compiled case-insensitive (option sensitive
\* is left at its default)
Lower(s) ==
  CASE s = "A" -> "a" [] s = "B" -> "b" [] s = "ITEM" -> "item" [] OTHER -> s

\* the non-strict mode drops one trailing "/" of the template
StripTrailingSlash(path) ==
  IF Len(path) > 0 /\ path[Len(path)].kind = "lit" /\ path[Len(path)].seg = ""
  THEN SubSeq(path, 1, Len(path) - 1)
  ELSE path

\* pathToRegexp(path, null, { end }): the compiled pattern
pathToRegexp(path, end) == [tokens |-> StripTrailingSlash(path), end |-> end]

NoMatch == [ok |-> FALSE, caps |-> <<>>]

\* the regular expression's backtracking match of the tokens against the
\* segments; caps holds one capture per placeholder, undefinedStr for an
\* optional placeholder that took nothing
RECURSIVE MatchTokens(_, _, _)
MatchTokens(tokens, segs, end) ==
  IF tokens = <<>>
  THEN IF end
       THEN IF segs = <<>> \/ segs = <<"">>
            THEN [ok |-> TRUE, caps |-> <<>>]
            ELSE NoMatch
       ELSE [ok |-> TRUE, caps |-> <<>>]
  ELSE LET t == Head(tokens)
           rest == Tail(tokens)
       IN IF t.kind = "lit"
          THEN IF segs # <<>> /\ Lower(Head(segs)) = Lower(t.seg)
               THEN MatchTokens(rest, Tail(segs), end)
               ELSE NoMatch
          ELSE LET taken == IF segs # <<>> /\ Head(segs) # ""
                            THEN MatchTokens(rest, Tail(segs), end)
                            ELSE NoMatch
               IN IF taken.ok
                  THEN [ok |-> TRUE, caps |-> <<Head(segs)>> \o taken.caps]
                  ELSE IF t.optional
                       THEN LET skipped == MatchTokens(rest, segs, end)
                            IN IF skipped.ok
                               THEN [ok |-> TRUE,
                                     caps |-> <<undefinedStr>> \o skipped.caps]
                               ELSE NoMatch
                       ELSE NoMatch

\* pattern.exec(pathname): the match, or no match
PatternExec(pattern, pathname) ==
  MatchTokens(pattern.tokens, pathname, pattern.end)

\* pattern.test(pathname)
PatternTest(pattern, pathname) == PatternExec(pattern, pathname).ok

\* pathToRegexp.compile(path)(pathParams): the filled pathname, or the
\* TypeError of a placeholder that is missing or does not match its pattern
RECURSIVE CompilePath(_, _)
CompilePath(path, pathParams) ==
  IF path = <<>>
  THEN [ok |-> TRUE, pathname |-> <<>>]
  ELSE LET t == Head(path)
           rest == CompilePath(Tail(path), pathParams)
       IN IF t.kind = "lit"
          THEN [ok |-> rest.ok, pathname |-> <<t.seg>> \o rest.pathname]
          ELSE IF t.name \in DOMAIN pathParams
               THEN IF pathParams[t.name] = ""
                    THEN [ok |-> FALSE, pathname |-> <<>>]
                    ELSE [ok |-> rest.ok,
                          pathname |-> <<pathParams[t.name]>> \o rest.pathname]
               ELSE IF t.optional
                    THEN rest
                    ELSE [ok |-> FALSE, pathname |-> <<>>]

(***************************************************************************)
(* query-string                                                            *)
(***************************************************************************)
\* the parameter names of the model, in the order stringify sorts them
SortedKeys == <<"id", "q">>

RECURSIVE StringifyKeys(_, _)
StringifyKeys(keys, object) ==
  IF keys = <<>>
  THEN <<>>
  ELSE (IF Head(keys) \in DOMAIN object
        THEN << <<Head(keys), object[Head(keys)]>> >>
        ELSE <<>>) \o StringifyKeys(Tail(keys), object)

\* queryString.stringify(object): the key=value pairs, sorted by key
QueryStringify(object) == StringifyKeys(SortedKeys, object)

\* queryString.parse(search): the object of the pairs (the keys of the
\* model's query strings are distinct)
QueryParse(search) ==
  [k \in {search[i][1] : i \in DOMAIN search} |->
     LET i == CHOOSE i \in DOMAIN search : search[i][1] = k IN search[i][2]]

(***************************************************************************)
(* Errors                                                                  *)
(***************************************************************************)
\* instances of the error classes
RouteMatchError == [error |-> "RouteMatchError"]
LocationMatchError == [error |-> "LocationMatchError"]
\* the engine's error of a recursion that does not end
RangeError == [error |-> "RangeError"]

(***************************************************************************)
(* Router configuration                                                    *)
(***************************************************************************)
\* what a constructor that throws TypeError yields
TypeError == [constructor |-> "TypeError"]

\* an argument that is no string (the number 123 of the tests) is encoded as
\* a template of one token of the kind "number"
NotAString ==
  <<[kind |-> "number", seg |-> "", name |-> "", optional |-> FALSE]>>

\* mutant: every value passes for a string
typeofStringAlways(value) == TRUE

\* typeof value === 'string'
typeofString(value) == \A i \in DOMAIN value : value[i].kind # "number"

\* an argument that is no Array (the string 'nonsense' of the tests) is
\* encoded as a sequence of one marker
NotAnArray == <<[constructor |-> "NotAnArray"]>>

\* value instanceof Array
instanceofArray(value) == value # NotAnArray

createConfig(constructor, name, to, path, pattern) ==
  [constructor |-> constructor, name |-> name, to |-> to,
   path |-> path, pattern |-> pattern]

Route(name, path) ==
  IF name = undefinedStr
  THEN TypeError
  ELSE IF ~typeofString(path)
       THEN TypeError
       ELSE createConfig("Route", name, undefinedStr, path,
                         pathToRegexp(path, TRUE))

Redirect(to, path) ==
  IF to = undefinedStr
  THEN TypeError
  ELSE IF ~typeofString(path)
       THEN TypeError
       ELSE createConfig("Redirect", undefinedStr, to, path,
                         pathToRegexp(path, TRUE))

\* mutant: the pattern of a Fallback accepts its path only, not every
\* pathname that begins with it
FallbackExact(name, path) ==
  IF name = undefinedStr
  THEN TypeError
  ELSE IF ~typeofString(path)
       THEN TypeError
       ELSE createConfig("Fallback", name, undefinedStr, <<>>,
                         pathToRegexp(path, TRUE))

\* a Fallback keeps the pattern of its path but stores the path ''
Fallback(name, path) ==
  IF name = undefinedStr
  THEN TypeError
  ELSE IF ~typeofString(path)
       THEN TypeError
       ELSE createConfig("Fallback", name, undefinedStr, <<>>,
                         pathToRegexp(path, FALSE))

\* mutant: a Fallback is rebuilt by the case of a Route
ScopeChildFallbackAsRoute(base, child) ==
  CASE child.constructor = "Redirect" -> Redirect(child.to, base \o child.path)
    [] OTHER -> Route(child.name, base \o child.path)

ScopeChild(base, child) ==
  CASE child.constructor = "Fallback" -> Fallback(child.name, base \o child.path)
    [] child.constructor = "Redirect" -> Redirect(child.to, base \o child.path)
    [] child.constructor = "Route" -> Route(child.name, base \o child.path)

Scope(base, router) ==
  IF ~typeofString(base)
  THEN TypeError
  ELSE IF router.constructor # "Router"
       THEN TypeError
       ELSE [constructor |-> "Scope", base |-> base,
             children |-> [i \in DOMAIN router.children |->
                             ScopeChild(base, router.children[i])]]

\* mutant: the children of a Scope are put in front of the entries
\* collected so far
RECURSIVE ResolveChildrenScopeInFront(_, _)
ResolveChildrenScopeInFront(resolved, children) ==
  IF children = <<>>
  THEN [threw |-> FALSE, children |-> resolved]
  ELSE LET child == Head(children)
       IN CASE child.constructor = "Scope" ->
                 ResolveChildrenScopeInFront(child.children \o resolved,
                                             Tail(children))
            [] child.constructor \in {"Fallback", "Redirect", "Route"} ->
                 ResolveChildrenScopeInFront(resolved \o <<child>>,
                                             Tail(children))
            [] OTHER -> [threw |-> TRUE, children |-> <<>>]

\* mutant: a Router among the children is spliced in like a Scope
RECURSIVE ResolveChildrenRouterAsScope(_, _)
ResolveChildrenRouterAsScope(resolved, children) ==
  IF children = <<>>
  THEN [threw |-> FALSE, children |-> resolved]
  ELSE LET child == Head(children)
       IN CASE child.constructor \in {"Scope", "Router"} ->
                 ResolveChildrenRouterAsScope(resolved \o child.children,
                                              Tail(children))
            [] child.constructor \in {"Fallback", "Redirect", "Route"} ->
                 ResolveChildrenRouterAsScope(resolved \o <<child>>,
                                              Tail(children))
            [] OTHER -> [threw |-> TRUE, children |-> <<>>]

\* children.reduce(...): the flattened children; threw is set at the first
\* child that is no Scope, Fallback, Redirect or Route
RECURSIVE ResolveChildren(_, _)
ResolveChildren(resolved, children) ==
  IF children = <<>>
  THEN [threw |-> FALSE, children |-> resolved]
  ELSE LET child == Head(children)
       IN CASE child.constructor = "Scope" ->
                 ResolveChildren(resolved \o child.children, Tail(children))
            [] child.constructor \in {"Fallback", "Redirect", "Route"} ->
                 ResolveChildren(resolved \o <<child>>, Tail(children))
            [] OTHER -> [threw |-> TRUE, children |-> <<>>]

Router(children) ==
  IF ~instanceofArray(children)
  THEN TypeError
  ELSE LET resolvedChildren == ResolveChildren(<<>>, children)
       IN IF resolvedChildren.threw
          THEN TypeError
          ELSE [constructor |-> "Router",
                children |-> resolvedChildren.children]

(***************************************************************************)
(* Route/Location translation                                              *)
(***************************************************************************)
RECURSIVE ParamNames(_)
ParamNames(path) ==
  IF path = <<>>
  THEN <<>>
  ELSE (IF Head(path).kind = "param" THEN <<Head(path).name>> ELSE <<>>)
       \o ParamNames(Tail(path))

\* pathToRegexp.parse(path).filter(...).map(token => token.name)
getPathParamNames(path) == ParamNames(path)

Includes(seq, x) == \E i \in DOMAIN seq : seq[i] = x

\* mutant: every key is kept
keyFilterAll(object, condition) == object

\* the condition is a function from the object's keys to BOOLEAN
keyFilter(object, condition) ==
  [key \in {k \in DOMAIN object : condition[k]} |-> object[key]]

\* mutant: an entry of any kind that has the name is taken
RECURSIVE FindRouteAnyKind(_, _, _)
FindRouteAnyKind(children, name, i) ==
  IF i > Len(children)
  THEN 0
  ELSE IF children[i].name = name
       THEN i
       ELSE FindRouteAnyKind(children, name, i + 1)

\* children.find(child => child instanceof Route && child.name === name),
\* scanning from index i: the index found, or 0
RECURSIVE FindRoute(_, _, _)
FindRoute(children, name, i) ==
  IF i > Len(children)
  THEN 0
  ELSE IF children[i].constructor = "Route" /\ children[i].name = name
       THEN i
       ELSE FindRoute(children, name, i + 1)

\* mutant: the last matching child is taken
FindMatchLast(children, pathname, i) ==
  LET is == {j \in DOMAIN children : PatternTest(children[j].pattern, pathname)}
  IN IF is = {} THEN 0 ELSE CHOOSE j \in is : \A k \in is : k <= j

\* children.find(child => child.pattern.test(pathname)), scanning from
\* index i: the index found, or 0
RECURSIVE FindMatch(_, _, _)
FindMatch(children, pathname, i) ==
  IF i > Len(children)
  THEN 0
  ELSE IF PatternTest(children[i].pattern, pathname)
       THEN i
       ELSE FindMatch(children, pathname, i + 1)

\* the outcome of a call that throws
Throw(error) == [thrown |-> error]

\* mutant: the error of pathToRegexp.compile is not wrapped
routeToLocationUnwrapped(router, name, params, hash) ==
  LET found == FindRoute(router.children, name, 1)
  IN IF found = 0
     THEN Throw(RouteMatchError)
     ELSE LET route == router.children[found]
              pathParamNames == getPathParamNames(route.path)
              pathParams ==
                keyFilter(params, [key \in DOMAIN params |->
                                     Includes(pathParamNames, key)])
              queryParams ==
                keyFilter(params, [key \in DOMAIN params |->
                                     ~Includes(pathParamNames, key)])
              compiled == CompilePath(route.path, pathParams)
          IN IF ~compiled.ok
             THEN Throw([error |-> "TypeError"])
             ELSE [thrown |-> undefined,
                   location |-> [pathname |-> compiled.pathname,
                                 search |-> QueryStringify(queryParams),
                                 hash |-> hash]]


routeToLocation(router, name, params, hash) ==
  LET found == FindRoute(router.children, name, 1)
  IN IF found = 0
     THEN Throw(RouteMatchError)
     ELSE LET route == router.children[found]
              pathParamNames == getPathParamNames(route.path)
              pathParams ==
                keyFilter(params, [key \in DOMAIN params |->
                                     Includes(pathParamNames, key)])
              queryParams ==
                keyFilter(params, [key \in DOMAIN params |->
                                     ~Includes(pathParamNames, key)])
              search == QueryStringify(queryParams)
              compiled == CompilePath(route.path, pathParams)
          IN IF ~compiled.ok
             THEN Throw(RouteMatchError)
             ELSE [thrown |-> undefined,
                   location |-> [pathname |-> compiled.pathname,
                                 search |-> search, hash |-> hash]]

\* pathParamNames.reduce(...): the captures zipped with the names, the
\* undefined captures left out
PathParams(pathParamNames, pathParamValues) ==
  [name \in {pathParamNames[i] :
               i \in {j \in DOMAIN pathParamNames :
                        /\ j \in DOMAIN pathParamValues
                        /\ pathParamValues[j] # undefinedStr}} |->
     LET last == CHOOSE i \in DOMAIN pathParamNames :
                   /\ pathParamNames[i] = name
                   /\ i \in DOMAIN pathParamValues
                   /\ pathParamValues[i] # undefinedStr
                   /\ \A j \in DOMAIN pathParamNames :
                        (/\ pathParamNames[j] = name
                         /\ j \in DOMAIN pathParamValues
                         /\ pathParamValues[j] # undefinedStr) => j <= i
     IN pathParamValues[last]]

\* mutants: the query params are left out; the path params win
SpreadPathOnly(pathParams, queryParams) == pathParams
SpreadPathWins(pathParams, queryParams) ==
  [k \in DOMAIN pathParams \cup DOMAIN queryParams |->
     IF k \in DOMAIN pathParams THEN pathParams[k] ELSE queryParams[k]]

\* { ...pathParams, ...queryParams }
Spread(pathParams, queryParams) ==
  [k \in DOMAIN pathParams \cup DOMAIN queryParams |->
     IF k \in DOMAIN queryParams THEN queryParams[k] ELSE pathParams[k]]

locationToRoute(router, location) ==
  LET found == FindMatch(router.children, location.pathname, 1)
  IN IF found = 0
     THEN Throw(LocationMatchError)
     ELSE LET route == router.children[found]
              pathParamNames == getPathParamNames(route.path)
              pathParamValues == PatternExec(route.pattern, location.pathname).caps
              pathParams == PathParams(pathParamNames, pathParamValues)
              queryParams == QueryParse(location.search)
              params == Spread(pathParams, queryParams)
          IN [thrown |-> undefined, route |-> route, params |-> params,
              hash |-> location.hash]

(***************************************************************************)
(* Action types and action creators                                        *)
(***************************************************************************)
SYNC == "@@reduxRoutable/SYNC"
PUSH == "@@reduxRoutable/PUSH"
REPLACE == "@@reduxRoutable/REPLACE"
OPEN == "@@reduxRoutable/OPEN"
GO == "@@reduxRoutable/GO"
GO_BACK == "@@reduxRoutable/GO_BACK"
GO_FORWARD == "@@reduxRoutable/GO_FORWARD"
ROUTE_CHANGED == "@@reduxRoutable/ROUTE_CHANGED"
ROUTE_NOT_MATCHED == "@@reduxRoutable/ROUTE_NOT_MATCHED"
LOCATION_NOT_MATCHED == "@@reduxRoutable/LOCATION_NOT_MATCHED"

sync == [type |-> SYNC]
push(route, params, hash) ==
  [type |-> PUSH, payload |-> [route |-> route, params |-> params, hash |-> hash]]
replace(route, params, hash) ==
  [type |-> REPLACE, payload |-> [route |-> route, params |-> params, hash |-> hash]]
open(route, params, hash) ==
  [type |-> OPEN, payload |-> [route |-> route, params |-> params, hash |-> hash]]
go(offset) == [type |-> GO, payload |-> offset]
goBack == [type |-> GO_BACK]
goForward == [type |-> GO_FORWARD]

routeChanged(route, params, hash, previous) ==
  [type |-> ROUTE_CHANGED,
   payload |-> [route |-> route, params |-> params, hash |-> hash],
   meta |-> [previous |-> previous]]

routeNotMatched(error, route, params, hash) ==
  [type |-> ROUTE_NOT_MATCHED, error |-> TRUE, payload |-> error,
   meta |-> [route |-> route, params |-> params, hash |-> hash]]

\* mutant: the location is left out of meta
locationNotMatchedNoLocation(error, location) ==
  [type |-> LOCATION_NOT_MATCHED, error |-> TRUE, payload |-> error,
   meta |-> [location |-> undefined]]


locationNotMatched(error, location) ==
  [type |-> LOCATION_NOT_MATCHED, error |-> TRUE, payload |-> error,
   meta |-> [location |-> location]]

(***************************************************************************)
(* Helpers                                                                 *)
(***************************************************************************)
\* a matchable that is a route name: a string, which is no object
Name(value) == [constructor |-> "String", value |-> value]
\* a matchable that is an Array of matchables
ArrayOf(items) == [constructor |-> "Array", items |-> items]

\* mutant: a Redirect is matched by its target, like a Route by its name
RECURSIVE matchRedirectByTarget(_, _)
matchRedirectByTarget(route, matchable) ==
  CASE matchable.constructor = "String" -> route = matchable.value
    [] matchable.constructor \in {"Route", "Fallback"} -> route = matchable.name
    [] matchable.constructor = "Redirect" -> route = matchable.to
    [] matchable.constructor \in {"Router", "Scope"} ->
         \E i \in DOMAIN matchable.children :
           matchRedirectByTarget(route, matchable.children[i])
    [] matchable.constructor = "Array" ->
         \E i \in DOMAIN matchable.items :
           matchRedirectByTarget(route, matchable.items[i])
    [] OTHER -> FALSE

\* the name of a Route or a Fallback is a string, so match(route,
\* matchable.name) is route === matchable.name; match(route,
\* matchable.children) is the Array case over the children; an object of
\* any other constructor (a Redirect) is compared with the route itself
RECURSIVE match(_, _)
match(route, matchable) ==
  CASE matchable.constructor = "String" -> route = matchable.value
    [] matchable.constructor \in {"Route", "Fallback"} -> route = matchable.name
    [] matchable.constructor \in {"Router", "Scope"} ->
         \E i \in DOMAIN matchable.children :
           match(route, matchable.children[i])
    [] matchable.constructor = "Array" ->
         \E i \in DOMAIN matchable.items : match(route, matchable.items[i])
    [] OTHER -> FALSE

\* the JavaScript value null, in a slot that otherwise holds a string
null == "null"

\* a paramsSelector of the shape ({ key }) => key
Selector(key) == [key |-> key]

\* paramsSelector(params)
Select(paramsSelector, params) ==
  IF paramsSelector.key \in DOMAIN params
  THEN params[paramsSelector.key]
  ELSE undefinedStr

\* const [awayVal, paramsSelector] = rest.length === 1 ? [null, ...rest] : rest
paramsReducerArgs(rest) == IF Len(rest) = 1 THEN <<null>> \o rest ELSE rest

\* the reducer paramsReducer(matchable, ...rest) returns, applied to
\* (state, action); the default of the parameter state takes the place of
\* an undefined state
paramsReducer(matchable, rest, state, action) ==
  LET awayVal == paramsReducerArgs(rest)[1]
      paramsSelector == paramsReducerArgs(rest)[2]
  IN IF action.type = ROUTE_CHANGED
     THEN IF match(action.payload.route, matchable)
          THEN Select(paramsSelector, action.payload.params)
          ELSE awayVal
     ELSE IF state = undefinedStr THEN awayVal ELSE state

\* changedTo(matchable)(action)
changedTo(matchable, action) ==
  /\ action.type = ROUTE_CHANGED
  /\ match(action.payload.route, matchable)

\* mutant: the previous route is not looked at
enteredIgnoringPrevious(matchable, action) == changedTo(matchable, action)

\* entered(matchable)(action)
entered(matchable, action) ==
  /\ action.type = ROUTE_CHANGED
  /\ match(action.payload.route, matchable)
  /\ \/ action.meta.previous = undefined
     \/ ~match(action.meta.previous.route, matchable)

\* mutant: the previous route is not looked at
exitedIgnoringPrevious(matchable, action) ==
  /\ action.type = ROUTE_CHANGED
  /\ ~match(action.payload.route, matchable)

\* exited(matchable)(action)
exited(matchable, action) ==
  /\ action.type = ROUTE_CHANGED
  /\ ~match(action.payload.route, matchable)
  /\ action.meta.previous # undefined
  /\ match(action.meta.previous.route, matchable)

(***************************************************************************)
(* The history collaborator (createMemoryHistory) and the middleware.      *)
(* Every call is synchronous, so a handler is a function from the world    *)
(* before it to the world after it.  A world w holds                       *)
(*   entries, index  the history stack and the position of history.location*)
(*                   in it (counted from 1)                                *)
(*   previous        the middleware's variable previous                    *)
(*   dispatched      the calls of store.dispatch made by the middleware,   *)
(*                   each with the location whose handling made it         *)
(*   forwarded       the actions handed to next                            *)
(*   calls           the calls of history methods made by the middleware   *)
(*   opened          the hrefs handed to window.open                       *)
(*   thrown          the exception in flight, or undefined                 *)
(*   returned        the value the last completed handler returned         *)
(*   stack           the locations of the historyListener frames that are  *)
(*                   active                                                *)
(*   listeners       the listeners registered with history.listen, in the  *)
(*                   order of their registration                           *)
(*   currentRoute    the state currentRoute of the Routable component      *)
(*   delivered       the locations the historyListener was called with     *)
(*   reaction        the handler after the middleware: the route whose     *)
(*                   ROUTE_CHANGED it reacts to and the intent it then     *)
(*                   dispatches, NoReaction when it only records           *)
(*   reacting        the handler is inside its own dispatch                *)
(*   clicked         what a Link's click handler did with the event: the   *)
(*                   calls of event.preventDefault and of dispatch         *)
(***************************************************************************)
\* mutant: the first entry is taken for the current one
HistoryLocationFirst(w) == w.entries[1]

\* history.location
HistoryLocation(w) == w.entries[w.index]

\* createLocation(location, state, key, currentLocation): an empty pathname
\* resolves to the current one, a hash gets its leading '#'
createLocation(location, currentLocation) ==
  [pathname |-> IF location.pathname = <<>>
                THEN currentLocation.pathname
                ELSE location.pathname,
   search |-> location.search,
   hash |-> IF location.hash = "h" THEN "#h" ELSE location.hash]

clamp(n, lowerBound, upperBound) ==
  IF n < lowerBound THEN lowerBound ELSE IF n > upperBound THEN upperBound ELSE n

isAbsoluteAction(action) == action.type \in {PUSH, REPLACE, OPEN}

\* mutant: GO is missing from the list
isRelativeActionNoGo(action) == action.type \in {GO_BACK, GO_FORWARD}


isRelativeAction(action) == action.type \in {GO, GO_BACK, GO_FORWARD}

\* mutant: a Redirect is taken for a Route
instanceofRedirectNever(route) == FALSE

\* route instanceof Redirect
instanceofRedirect(route) == route.constructor = "Redirect"

RECURSIVE Middleware(_, _, _)

\* a handler after the middleware that reacts to nothing
NoReaction == [on |-> undefinedStr, intent |-> [type |-> "none"]]

\* the stage after the middleware: it records the action and returns it;
\* when it is a ROUTE_CHANGED for the route it reacts to, it first
\* dispatches its intent to the store, unless it is doing so already
next(router, w, action) ==
  IF /\ action.type = ROUTE_CHANGED
     /\ action.payload.route = w.reaction.on
     /\ ~w.reacting
  THEN [Middleware(router,
                   [w EXCEPT !.forwarded = Append(@, action),
                             !.reacting = TRUE],
                   w.reaction.intent)
          EXCEPT !.reacting = FALSE,
                 !.returned = [next |-> action]]
  ELSE [w EXCEPT !.forwarded = Append(@, action),
                 !.returned = [next |-> action]]

\* mutants: previous is never recorded; previous also records the payload of
\* an error notification
TrackPreviousNever(w, action) == w
TrackPreviousAnyPayload(w, action) ==
  IF action.type \in {ROUTE_CHANGED, ROUTE_NOT_MATCHED, LOCATION_NOT_MATCHED}
  THEN [w EXCEPT !.previous = action.payload]
  ELSE w

\* if (action.type === ROUTE_CHANGED) previous = action.payload
TrackPrevious(w, action) ==
  IF action.type = ROUTE_CHANGED
  THEN [w EXCEPT !.previous = action.payload]
  ELSE w

\* mutant: the result of next is not returned
PassThroughNoReturn(router, w, action) ==
  [next(router, TrackPrevious(w, action), action) EXCEPT !.returned = undefined]

\* mutant: previous is assigned when next has returned
PassThroughAssignsAfter(router, w, action) ==
  [TrackPrevious(next(router, w, action), action)
     EXCEPT !.returned = [next |-> action]]

\* the branch of the actions that are no navigation actions
PassThrough(router, w, action) ==
  next(router, TrackPrevious(w, action), action)

\* the middleware's call of a history method, recorded
Called(w, method, argument) ==
  [w EXCEPT !.calls = Append(@, [method |-> method, argument |-> argument])]

\* the value null where a configuration value is read for its constructor
nullRoute == [constructor |-> "null"]

\* the body of the Routable component's listener and of its state
\* initializer, r the outcome of locationToRoute: a LocationMatchError
\* becomes null, any other error is thrown again
RoutableTry(w, r) ==
  IF r.thrown = LocationMatchError
  THEN [w EXCEPT !.currentRoute = nullRoute]
  ELSE IF r.thrown # undefined
       THEN [w EXCEPT !.thrown = r.thrown]
       ELSE [w EXCEPT !.currentRoute = r.route]

\* the listener the Routable component registers in its effect
RoutableListener(router, w, location) ==
  RoutableTry(w, locationToRoute(router, location))

RECURSIVE historyListener(_, _, _)
RECURSIVE notifyListeners(_, _, _, _)
RECURSIVE historyPush(_, _, _)
RECURSIVE historyReplace(_, _, _)
RECURSIVE historyGo(_, _, _)
RECURSIVE storeDispatch(_, _, _, _)

\* mutant: history.push keeps the entries after the current one
historyPushKeepsForward(router, w, location) ==
  LET loc == createLocation(location, HistoryLocation(w))
      w1 == [w EXCEPT !.entries = SubSeq(@, 1, w.index) \o <<loc>>
                                    \o SubSeq(@, w.index + 1, Len(@)),
                      !.index = @ + 1]
  IN notifyListeners(router, w1, loc, 1)

\* history.push(location): the entries after the current one are dropped,
\* the new location is appended and the listeners are notified
historyPush(router, w, location) ==
  LET loc == createLocation(location, HistoryLocation(w))
      w1 == [w EXCEPT !.entries = Append(SubSeq(@, 1, w.index), loc),
                      !.index = @ + 1]
  IN notifyListeners(router, w1, loc, 1)

\* mutant: history.replace appends the location as history.push does
historyReplaceAppends(router, w, location) == historyPush(router, w, location)

\* history.replace(location): the current entry is overwritten and the
\* listeners are notified
historyReplace(router, w, location) ==
  LET loc == createLocation(location, HistoryLocation(w))
      w1 == [w EXCEPT !.entries[w.index] = loc]
  IN notifyListeners(router, w1, loc, 1)

\* mutant: history.go moves the index and notifies nobody
historyGoSilent(router, w, n) ==
  [w EXCEPT !.index = clamp(w.index + n, 1, Len(w.entries))]

\* history.go(n): the index moves by n, clamped to the stack, and the
\* listeners are notified
historyGo(router, w, n) ==
  LET nextIndex == clamp(w.index + n, 1, Len(w.entries))
      w1 == [w EXCEPT !.index = nextIndex]
  IN notifyListeners(router, w1, w1.entries[nextIndex], 1)

\* history.createHref(location): createPath of the history package, the
\* pathname or '/' when it is empty, then the search, then the hash with its
\* leading '#'
createHref(location) ==
  <<IF location.pathname = <<>> THEN <<"">> ELSE location.pathname,
    location.search,
    IF location.hash = "h" THEN "#h" ELSE location.hash>>

\* store.dispatch(action) called by the middleware: the action enters the
\* middleware chain at its top; cause is the location being handled
storeDispatch(router, w, action, cause) ==
  Middleware(router,
             [w EXCEPT !.dispatched =
                         Append(@, [action |-> action, cause |-> cause])],
             action)

\* the catch block of the listener: a LocationMatchError becomes a
\* LOCATION_NOT_MATCHED notification, any other error is thrown again
listenerCatch(router, w, location, error) ==
  IF error = LocationMatchError
  THEN storeDispatch(router, w, locationNotMatched(error, location), location)
  ELSE [w EXCEPT !.thrown = error]

\* history.replace(routeToLocation(router, route.to, params, hash)), t the
\* outcome of routeToLocation
listenerReplace(router, w, location, t) ==
  IF t.thrown # undefined
  THEN listenerCatch(router, w, location, t.thrown)
  ELSE historyReplace(router, Called(w, "replace", t.location), t.location)

\* the try block of the listener, r the outcome of locationToRoute
listenerTry(router, w, location, r) ==
  IF r.thrown # undefined
  THEN listenerCatch(router, w, location, r.thrown)
  ELSE IF instanceofRedirect(r.route)
       THEN listenerReplace(router, w, location,
                            routeToLocation(router, r.route.to, r.params, r.hash))
       ELSE storeDispatch(router, w,
                          routeChanged(r.route.name, r.params, r.hash, w.previous),
                          location)

historyListener(router, w, location) ==
  IF location \in w.stack
  THEN \* the same location is being handled further up: the recursion
       \* never ends and the engine throws
       [w EXCEPT !.thrown = RangeError,
                 !.delivered = Append(@, location)]
  ELSE [listenerTry(router,
                    [w EXCEPT !.stack = @ \cup {location},
                              !.delivered = Append(@, location)],
                    location, locationToRoute(router, location))
          EXCEPT !.stack = w.stack]

\* mutant: an OPEN also changes the location as a PUSH does
absoluteSwitchOpenPushes(router, w, action, t) ==
  IF t.thrown # undefined
  THEN [w EXCEPT !.thrown = t.thrown]
  ELSE CASE action.type \in {PUSH, OPEN} ->
              [historyPush(router, Called(w, "push", t.location), t.location)
                 EXCEPT !.opened = IF action.type = OPEN
                                   THEN Append(@, createHref(t.location))
                                   ELSE @]
         [] action.type = REPLACE ->
              historyReplace(router, Called(w, "replace", t.location), t.location)

\* one registered listener called with the location
callListener(router, w, location, listener) ==
  IF listener = "historyListener"
  THEN historyListener(router, w, location)
  ELSE RoutableListener(router, w, location)

\* the history notifies its listeners of a change: each is called in the
\* order of registration with the location the change led to; an exception
\* of a listener ends the round
notifyListeners(router, w, location, i) ==
  IF i > Len(w.listeners) \/ w.thrown # undefined
  THEN w
  ELSE notifyListeners(router,
                       callListener(router, w, location, w.listeners[i]),
                       location, i + 1)

\* the switch of an absolute action, t the outcome of routeToLocation
absoluteSwitch(router, w, action, t) ==
  IF t.thrown # undefined
  THEN [w EXCEPT !.thrown = t.thrown]
  ELSE CASE action.type = PUSH ->
              historyPush(router, Called(w, "push", t.location), t.location)
         [] action.type = REPLACE ->
              historyReplace(router, Called(w, "replace", t.location), t.location)
         [] action.type = OPEN ->
              [Called(w, "createHref", t.location)
                 EXCEPT !.opened = Append(@, createHref(t.location))]

\* the catch block of an absolute action, tried the outcome of its try block:
\* a RouteMatchError becomes a ROUTE_NOT_MATCHED notification, any other
\* error is thrown again
absoluteCatch(router, tried, action) ==
  IF tried.thrown = RouteMatchError
  THEN storeDispatch(router, [tried EXCEPT !.thrown = undefined],
                     routeNotMatched(tried.thrown, action.payload.route,
                                     action.payload.params, action.payload.hash),
                     undefined)
  ELSE tried

\* the history method of a relative action and its offset
relativeMethod(action) ==
  CASE action.type = GO -> "go"
    [] action.type = GO_BACK -> "goBack"
    [] action.type = GO_FORWARD -> "goForward"

relativeOffset(action) ==
  CASE action.type = GO -> action.payload
    [] action.type = GO_BACK -> -1
    [] action.type = GO_FORWARD -> 1

\* the switch of a relative action
relativeSwitch(router, w, method, offset) ==
  historyGo(router, Called(w, method, offset), offset)

Middleware(router, w, action) ==
  IF action.type = SYNC
  THEN [historyListener(router, w, HistoryLocation(w))
          EXCEPT !.returned = undefined]
  ELSE IF isAbsoluteAction(action)
  THEN [absoluteCatch(
          router,
          absoluteSwitch(router, w, action,
                         routeToLocation(router, action.payload.route,
                                         action.payload.params,
                                         action.payload.hash)),
          action)
          EXCEPT !.returned = undefined]
  ELSE IF isRelativeAction(action)
  THEN [relativeSwitch(router, w, relativeMethod(action), relativeOffset(action))
          EXCEPT !.returned = undefined]
  ELSE PassThrough(router, w, action)

(***************************************************************************)
(* Bounds and inputs of the model                                          *)
(***************************************************************************)
\* the longest history stack explored
MaxEntries == 2
\* the largest offset given to go()
MaxOffset == 1

NoParams == [k \in {} |-> ""]

Loc(pathname, search, hash) ==
  [pathname |-> pathname, search |-> search, hash |-> hash]

\* Router([Route('home', '/'),
\*         Scope('/item', Router([Route('item', '/:id')])),
\*         Redirect('item', '/product/:id'),
\*         Fallback('notFound')])
ShopRouter ==
  Router(<<Route("home", <<Lit("")>>),
           Scope(<<Lit("item")>>, Router(<<Route("item", <<Param("id")>>)>>)),
           Redirect("item", <<Lit("product"), Param("id")>>),
           Fallback("notFound", <<>>)>>)

\* a configuration with mistakes: a Redirect to a name no Route has, a
\* Redirect declared before the Route it leads to, a Redirect that does not
\* capture what its target needs, a name given to two Routes
\* Router([Route('home', '/'),
\*         Scope('/item', Router([Redirect('missing', '/1'),
\*                                Redirect('item', '/:id/:q?')])),
\*         Route('item', '/item/:id'),
\*         Redirect('item', '/product/:q'),
\*         Route('home', '/home')])
FaultyRouter ==
  Router(<<Route("home", <<Lit("")>>),
           Scope(<<Lit("item")>>,
                 Router(<<Redirect("missing", <<Lit("1")>>),
                          Redirect("item", <<Param("id"), OptParam("q")>>)>>)),
           Route("item", <<Lit("item"), Param("id")>>),
           Redirect("item", <<Lit("product"), Param("q")>>),
           Route("home", <<Lit("home")>>)>>)

\* Router([])
EmptyRouter == Router(<<>>)

Routers == {ShopRouter, FaultyRouter, EmptyRouter}

\* the (route, params, hash) the application navigates to
Targets ==
  {[route |-> "home", params |-> NoParams, hash |-> ""],
   [route |-> "item", params |-> [k \in {"id"} |-> "1"], hash |-> "h"],
   [route |-> "item", params |-> [k \in {"id", "q"} |-> IF k = "id" THEN "2" ELSE "1"],
    hash |-> ""],
   [route |-> "item", params |-> [k \in {"q"} |-> "1"], hash |-> "#h"],
   [route |-> "notFound", params |-> NoParams, hash |-> ""]}

\* the locations the user or the application navigates to directly
Locations ==
  {Loc(<<"">>, <<>>, ""),
   Loc(<<"item", "1", "">>, << <<"id", "2">> >>, "#h"),
   Loc(<<"ITEM", "2", "">>, << <<"q", "1">> >>, ""),
   Loc(<<"product", "2">>, << <<"q", "1">> >>, ""),
   Loc(<<"x">>, <<>>, "")}

\* the locations a history is created at:
\* createMemoryHistory({ initialEntries: [location] })
InitialLocations ==
  {Loc(<<"">>, <<>>, ""),
   Loc(<<"product", "2">>, << <<"q", "1">> >>, "")}

\* the actions of the application that are no navigation actions
OtherActions ==
  {[type |-> "TEST"]}
  \cup {[type |-> ROUTE_CHANGED,
         payload |-> [route |-> "forged", params |-> NoParams, hash |-> ""],
         meta |-> [previous |-> undefined]]}

\* the reducers of the application's store, each with its own slice of the
\* state, as (matchable, ...rest) given to paramsReducer:
\*   paramsReducer('item', ({ id }) => id)
\*   paramsReducer(['home', 'item'], 'away', ({ q }) => q)
\*   paramsReducer(Router([Route('item', '/item/:id'), Redirect('home')]),
\*                 ({ id }) => id)
Reducers ==
  <<[matchable |-> Name("item"), rest |-> <<Selector("id")>>],
    [matchable |-> ArrayOf(<<Name("home"), Name("item")>>),
     rest |-> <<"away", Selector("q")>>],
    [matchable |-> Router(<<Route("item", <<Lit("item"), Param("id")>>),
                            Redirect("home", <<>>)>>),
     rest |-> <<Selector("id")>>]>>

\* the matchables the predicates are asked about: 'home', 'item', 'forged',
\* ['home', 'notFound'], Route('item', '/item/:id') and a Router
Matchables ==
  <<Name("home"), Name("item"), Name("forged"),
    ArrayOf(<<Name("home"), Name("notFound")>>),
    Route("item", <<Lit("item"), Param("id")>>),
    Reducers[3].matchable>>

\* the action redux dispatches when the store is created
ReduxInit == [type |-> "@@redux/INIT"]

\* the value undefined where an object is read for its constructor
undefinedObject == [constructor |-> "undefined"]

(***************************************************************************)
(* State                                                                   *)
(***************************************************************************)
VARIABLES
  router,      \* the Router given to createMiddleware
  entries,     \* history.entries
  index,       \* the position of history.location in entries, from 1
  previous,    \* the middleware's variable previous
  dispatched,  \* store.dispatch calls of the middleware in the last event
  forwarded,   \* the actions handed to next in the last event
  calls,       \* history methods called by the middleware in the last event
  opened,      \* hrefs handed to window.open in the last event
  thrown,      \* the exception the last event let escape, or undefined
  returned,    \* what the middleware returned for the last dispatch
  event,       \* the last event: its kind and its input
  changed,     \* payload of the last ROUTE_CHANGED this middleware dispatched
  seen,        \* payload of the last ROUTE_CHANGED action handed to next
  state,       \* store.getState(): the slice of each reducer of Reducers
  config,      \* the configuration value the last constructor call returned
  result,      \* what the last call of a translator or helper returned
  listeners,   \* the listeners registered with history.listen
  currentRoute, \* the Routable component's state, undefined without one
  clicked,     \* what a Link's click handler did in the last event
  heap,        \* the configuration objects built, each at its address
  delivered,   \* the locations given to historyListener in the last event
  reaction,    \* what the handler after the middleware reacts to and how
  flagged      \* over the notifications so far: the matchables whose last
               \* notification satisfying entered or exited satisfied
               \* entered, and whether a ROUTE_CHANGED that is no
               \* notification of the middleware has gone through it

vars == <<router, entries, index, previous, dispatched, forwarded, calls,
          opened, thrown, returned, event, changed, seen, state, config,
          result, listeners, currentRoute, clicked, heap, delivered,
          reaction, flagged>>

\* no click was handled
NoClick == [preventDefault |-> 0, dispatch |-> <<>>]

World ==
  [entries |-> entries, index |-> index, previous |-> previous,
   dispatched |-> <<>>, forwarded |-> <<>>, calls |-> <<>>, opened |-> <<>>,
   thrown |-> undefined, returned |-> undefined, stack |-> {},
   listeners |-> listeners, currentRoute |-> currentRoute,
   clicked |-> NoClick, delivered |-> <<>>, reaction |-> reaction,
   reacting |-> FALSE]

\* the payload of the last action of type ROUTE_CHANGED in a sequence of
\* actions, or fallback when there is none
LastChanged(actions, fallback) ==
  LET is == {i \in DOMAIN actions : actions[i].type = ROUTE_CHANGED}
  IN IF is = {}
     THEN fallback
     ELSE actions[CHOOSE i \in is : \A j \in is : j <= i].payload

DispatchedActions(w) == [i \in DOMAIN w.dispatched |-> w.dispatched[i].action]

\* the matchables whose last notification satisfying entered or exited
\* satisfied entered, after the notifications of type ROUTE_CHANGED among
\* actions, when they were inside before
RECURSIVE FlagsAfter(_, _)
FlagsAfter(inside, actions) ==
  IF actions = <<>>
  THEN inside
  ELSE IF Head(actions).type # ROUTE_CHANGED
       THEN FlagsAfter(inside, Tail(actions))
       ELSE FlagsAfter(
              (inside \ {m \in DOMAIN Matchables :
                         exited(Matchables[m], Head(actions))})
              \cup {m \in DOMAIN Matchables :
                      entered(Matchables[m], Head(actions))},
              Tail(actions))

\* an action of type ROUTE_CHANGED was handed to next that the middleware
\* did not dispatch
ForeignForwarded(w) ==
  \E i \in DOMAIN w.forwarded :
    /\ w.forwarded[i].type = ROUTE_CHANGED
    /\ \A j \in DOMAIN w.dispatched : w.dispatched[j].action # w.forwarded[i]

\* the store runs its reducer on every action handed to next
RECURSIVE Reduce(_, _, _)
Reduce(reducer, slice, actions) ==
  IF actions = <<>>
  THEN slice
  ELSE Reduce(reducer,
              paramsReducer(reducer.matchable, reducer.rest, slice,
                            Head(actions)),
              Tail(actions))

\* the state after an event that took the world to w
Apply(op, input, w) ==
  /\ router' = router
  /\ entries' = w.entries
  /\ index' = w.index
  /\ previous' = w.previous
  /\ dispatched' = w.dispatched
  /\ forwarded' = w.forwarded
  /\ calls' = w.calls
  /\ opened' = w.opened
  /\ thrown' = w.thrown
  /\ returned' = w.returned
  /\ event' = [op |-> op, input |-> input]
  /\ changed' = LastChanged(DispatchedActions(w), changed)
  /\ seen' = LastChanged(w.forwarded, seen)
  /\ state' = [i \in DOMAIN Reducers |->
                 Reduce(Reducers[i], state[i], w.forwarded)]
  /\ listeners' = w.listeners
  /\ currentRoute' = w.currentRoute
  /\ clicked' = w.clicked
  /\ delivered' = w.delivered
  /\ flagged' = [open |-> FlagsAfter(flagged.open, DispatchedActions(w)),
                 foreign |-> flagged.foreign \/ ForeignForwarded(w)]
  /\ UNCHANGED <<config, result, heap, reaction>>

\* createMemoryHistory({ initialEntries });
\* createMiddleware(router, history)(store)
Init ==
  /\ router \in Routers
  /\ \E location \in InitialLocations : entries = <<location>>
  /\ index = 1
  /\ previous = undefined
  /\ dispatched = <<>>
  /\ forwarded = <<>>
  /\ calls = <<>>
  /\ opened = <<>>
  /\ thrown = undefined
  /\ returned = undefined
  /\ event = [op |-> "createMiddleware"]
  /\ changed = undefined
  /\ seen = undefined
  /\ state = [i \in DOMAIN Reducers |->
                paramsReducer(Reducers[i].matchable, Reducers[i].rest,
                              undefinedStr, ReduxInit)]
  /\ config = undefinedObject
  /\ result = undefined
  /\ listeners = <<"historyListener">>
  /\ currentRoute = undefinedObject
  /\ clicked = NoClick
  /\ heap = <<>>
  /\ delivered = <<>>
  /\ flagged = [open |-> {}, foreign |-> FALSE]
  /\ reaction = NoReaction

\* store.dispatch(action) by the application, in the world w
Dispatch(w, action) == Apply("dispatch", action, Middleware(router, w, action))

DispatchSync == Dispatch(World, sync)

DispatchPush ==
  /\ index < MaxEntries
  /\ \E t \in Targets : Dispatch(World, push(t.route, t.params, t.hash))

DispatchReplace ==
  \E t \in Targets : Dispatch(World, replace(t.route, t.params, t.hash))

DispatchOpen ==
  \E t \in Targets : Dispatch(World, open(t.route, t.params, t.hash))

DispatchGo == \E offset \in (-MaxOffset)..MaxOffset : Dispatch(World, go(offset))

DispatchGoBack == Dispatch(World, goBack)

DispatchGoForward == Dispatch(World, goForward)

DispatchOther == \E action \in OtherActions : Dispatch(World, action)

\* history.replace(location) by the application or the user
LocationReplaced ==
  \E location \in Locations :
    Apply("replace", location, historyReplace(router, World, location))

Next ==
  \/ DispatchSync
  \/ DispatchPush
  \/ DispatchReplace
  \/ DispatchOpen
  \/ DispatchGo
  \/ DispatchGoBack
  \/ DispatchGoForward
  \/ DispatchOther
  \/ LocationReplaced

Spec == Init /\ [][Next]_vars

\* a binding whose application dispatches no action of type ROUTE_CHANGED
\* itself: every such action comes from the middleware
DispatchTest == Dispatch(World, [type |-> "TEST"])

OwnNext ==
  \/ DispatchSync
  \/ DispatchPush
  \/ DispatchReplace
  \/ DispatchOpen
  \/ DispatchGo
  \/ DispatchGoBack
  \/ DispatchGoForward
  \/ DispatchTest
  \/ LocationReplaced

OwnSpec == Init /\ [][OwnNext]_vars

\* a binding with a handler after the middleware that reacts to the
\* ROUTE_CHANGED of one route by dispatching an intent:
\*   store => next => action => {
\*     if (action.type === ROUTE_CHANGED && action.payload.route === on)
\*       store.dispatch(intent)
\*     return next(action)
\*   }
Reactions ==
  {[on |-> "home", intent |-> push("item", [k \in {"id"} |-> "1"], "")],
   [on |-> "item", intent |-> replace("home", NoParams, "")],
   [on |-> "notFound", intent |-> replace("item", [k \in {"q"} |-> "1"], "")]}

ReentrantInit ==
  /\ router \in Routers
  /\ \E location \in InitialLocations : entries = <<location>>
  /\ index = 1
  /\ previous = undefined
  /\ dispatched = <<>>
  /\ forwarded = <<>>
  /\ calls = <<>>
  /\ opened = <<>>
  /\ thrown = undefined
  /\ returned = undefined
  /\ event = [op |-> "createMiddleware"]
  /\ changed = undefined
  /\ seen = undefined
  /\ state = [i \in DOMAIN Reducers |->
                paramsReducer(Reducers[i].matchable, Reducers[i].rest,
                              undefinedStr, ReduxInit)]
  /\ config = undefinedObject
  /\ result = undefined
  /\ listeners = <<"historyListener">>
  /\ currentRoute = undefinedObject
  /\ clicked = NoClick
  /\ heap = <<>>
  /\ delivered = <<>>
  /\ flagged = [open |-> {}, foreign |-> FALSE]
  /\ reaction \in Reactions

\* the events of the binding, as far as the history stays within one entry
\* more than an intent of the application may give it
Bounded == Len(entries') <= MaxEntries + 1

ReentrantNext ==
  \/ DispatchSync /\ Bounded
  \/ DispatchPush /\ Bounded
  \/ DispatchReplace /\ Bounded
  \/ DispatchOpen /\ Bounded
  \/ DispatchGo /\ Bounded
  \/ DispatchGoBack /\ Bounded
  \/ DispatchGoForward /\ Bounded
  \/ DispatchTest /\ Bounded
  \/ LocationReplaced /\ Bounded

ReentrantSpec == ReentrantInit /\ [][ReentrantNext]_vars

(***************************************************************************)
(* Configuration time: the application calls the constructors, each on     *)
(* arguments of its choice and on the value it built last, and probes what *)
(* it built with locationToRoute and match.                                *)
(***************************************************************************)
\* the most entries a Router is built with
MaxChildren == 4
\* the most tokens of a template a Scope is built with
MaxTemplate == 2

\* the name and to arguments, the omitted one among them
ConfigNames == {"home", "item", undefinedStr}

\* the path arguments: '' (the default), '/', '/:id', '/search/:q?', 123
ConfigPaths ==
  {<<>>, <<Lit("")>>, <<Param("id")>>, <<Lit("search"), OptParam("q")>>,
   NotAString}

\* the base arguments: '/user', '/item', 123
ConfigBases == {<<Lit("user")>>, <<Lit("item")>>, NotAString}

\* Route('home', '/') and Fallback('notFound'), the fixed neighbours of the
\* value built last in the children of a Router
FirstChild == Route("home", <<Lit("")>>)
LastChild == Fallback("notFound", <<>>)

\* the children arguments that hold the value built last: alone, after,
\* before and between other children; and those that do not: [],
\* 'nonsense', ['nonsense'], [undefined]
ConfigChildren(held) ==
  {<<held>>, <<FirstChild, held>>, <<held, LastChild>>,
   <<FirstChild, held, LastChild>>, <<>>, NotAnArray,
   <<[constructor |-> "String"]>>, <<FirstChild, undefinedObject>>}

\* the locations the built Router is probed with
ConfigLocations ==
  Locations
  \cup {Loc(<<"search">>, <<>>, ""),
        Loc(<<"search", "w">>, <<>>, ""),
        Loc(<<"user">>, <<>>, ""),
        Loc(<<"user", "7">>, <<>>, ""),
        Loc(<<"item", "user", "7">>, <<>>, ""),
        Loc(<<"user", "item", "7", "8">>, << <<"q", "1">> >>, "")}

\* the route names match is probed with
ConfigRoutes == {"home", "item", "notFound", "nowhere"}

\* the matchables match is probed with: the value built last, a name,
\* Arrays of names
ConfigMatchables(held) ==
  {held, Name("home"), ArrayOf(<<>>),
   ArrayOf(<<Name("item"), Name("notFound")>>)}

\* the tokens of the longest template among the entries of a value
TemplateSize(value) ==
  CASE value.constructor \in {"Route", "Redirect", "Fallback"} ->
         Len(value.pattern.tokens)
    [] value.constructor \in {"Scope", "Router"} ->
         IF value.children = <<>>
         THEN 0
         ELSE LET i == CHOOSE i \in DOMAIN value.children :
                         \A j \in DOMAIN value.children :
                           Len(value.children[j].pattern.tokens)
                             <= Len(value.children[i].pattern.tokens)
              IN Len(value.children[i].pattern.tokens)
    [] OTHER -> 0

\* the entries of a value
ChildCount(value) ==
  IF value.constructor \in {"Scope", "Router"} THEN Len(value.children) ELSE 0

ConfigInit ==
  /\ router = EmptyRouter
  /\ entries = <<Loc(<<"">>, <<>>, "")>>
  /\ index = 1
  /\ previous = undefined
  /\ dispatched = <<>>
  /\ forwarded = <<>>
  /\ calls = <<>>
  /\ opened = <<>>
  /\ thrown = undefined
  /\ returned = undefined
  /\ event = [op |-> "start"]
  /\ changed = undefined
  /\ seen = undefined
  /\ state = <<>>
  /\ config = undefinedObject
  /\ result = undefined
  /\ listeners = <<>>
  /\ currentRoute = undefinedObject
  /\ clicked = NoClick
  /\ heap = <<>>
  /\ delivered = <<>>
  /\ flagged = [open |-> {}, foreign |-> FALSE]
  /\ reaction = NoReaction

\* the state after a constructor call on input that returned value, or
\* threw when value is TypeError; held is the value built before
Constructed(held, op, input, value) ==
  /\ event' = [op |-> op, input |-> input]
  /\ thrown' = IF value = TypeError THEN TypeError ELSE undefined
  /\ config' = IF value = TypeError THEN held ELSE value
  /\ result' = undefined
  /\ UNCHANGED <<router, entries, index, previous, dispatched, forwarded,
                 calls, opened, returned, changed, seen, state, listeners,
                 currentRoute, clicked, heap, delivered, reaction,
                 flagged>>

\* the state after a call on input that returned value
Probed(held, op, input, value) ==
  /\ event' = [op |-> op, input |-> input]
  /\ thrown' = undefined
  /\ config' = held
  /\ result' = value
  /\ UNCHANGED <<router, entries, index, previous, dispatched, forwarded,
                 calls, opened, returned, changed, seen, state, listeners,
                 currentRoute, clicked, heap, delivered, reaction,
                 flagged>>

ConstructRoute ==
  \E name \in ConfigNames : \E path \in ConfigPaths :
    Constructed(config, "Route", [name |-> name, path |-> path],
                Route(name, path))

ConstructRedirect ==
  \E to \in ConfigNames : \E path \in ConfigPaths :
    Constructed(config, "Redirect", [to |-> to, path |-> path],
                Redirect(to, path))

ConstructFallback ==
  \E name \in ConfigNames : \E path \in ConfigPaths :
    Constructed(config, "Fallback", [name |-> name, path |-> path],
                Fallback(name, path))

ConstructScope ==
  /\ TemplateSize(config) < MaxTemplate
  /\ \E base \in ConfigBases :
       Constructed(config, "Scope", [base |-> base, router |-> config],
                   Scope(base, config))

ConstructRouter ==
  \E children \in ConfigChildren(config) :
    /\ ChildCount(config) + 2 <= MaxChildren
    /\ Constructed(config, "Router", [children |-> children],
                   Router(children))

CallLocationToRoute ==
  /\ config.constructor = "Router"
  /\ \E location \in ConfigLocations :
       Probed(config, "locationToRoute", location,
              locationToRoute(config, location))

CallMatch ==
  \E route \in ConfigRoutes : \E matchable \in ConfigMatchables(config) :
    Probed(config, "match", [route |-> route, matchable |-> matchable],
           [value |-> match(route, matchable)])

ConfigNext ==
  \/ ConstructRoute
  \/ ConstructRedirect
  \/ ConstructFallback
  \/ ConstructScope
  \/ ConstructRouter
  \/ CallLocationToRoute
  \/ CallMatch

ConfigSpec == ConfigInit /\ [][ConfigNext]_vars

(***************************************************************************)
(* The React binding: a Routable component over the same router and        *)
(* history as the middleware, with Match and Link components below it.     *)
(* The store's middleware is created first, the Routable registers its     *)
(* listener when it is mounted.                                            *)
(***************************************************************************)
\* what a component renders when it renders its children
childrenNode == "children"

\* the state initializer of the Routable component
RoutableInitial(location) ==
  RoutableTry([currentRoute |-> undefinedObject, thrown |-> undefined],
              locationToRoute(router, location)).currentRoute

\* the Match component: route is its property route, a name or an Array of
\* names; current is the value of CurrentRouteContext
Match(route, current) ==
  IF current = nullRoute
  THEN null
  ELSE IF Includes(IF route.constructor = "Array"
                   THEN route.items
                   ELSE <<route.value>>,
                   current.name)
       THEN childrenNode
       ELSE null

linkActionCreators(action, route, params, hash) ==
  CASE action = "push" -> push(route, params, hash)
    [] action = "replace" -> replace(route, params, hash)
    [] action = "open" -> open(route, params, hash)

\* mutant: the modifier keys are not looked at
isModifiedEventNever(e) == FALSE

isModifiedEvent(e) == e.metaKey \/ e.altKey \/ e.ctrlKey \/ e.shiftKey

\* Link.defaultProps and props.target || '_self'
LinkAction(link) == IF link.action = undefinedStr THEN "push" ELSE link.action
LinkTarget(link) == IF link.target \in {undefinedStr, ""} THEN "_self" ELSE link.target

\* the Link component renders an <a> when its route translates, null
\* otherwise
LinkRenders(link) ==
  routeToLocation(router, link.route, link.params, link.hash).thrown = undefined

\* the property onClick of the link, called with the event: it returns the
\* event as the handler leaves it
onClick(link, e) ==
  IF link.onClick = "preventDefault"
  THEN [e EXCEPT !.defaultPrevented = TRUE]
  ELSE e

\* const linkAction = actionCreator(route, params, hash);
\* event.preventDefault(); dispatch(linkAction)
handleClickDispatch(w, linkAction) ==
  Middleware(router,
             [w EXCEPT !.clicked = [preventDefault |-> 1,
                                    dispatch |-> <<linkAction>>]],
             linkAction)

\* the rest of handleClick after the property onClick has run on the event
handleClickAfter(w, link, e) ==
  IF /\ ~e.defaultPrevented
     /\ e.button = 0
     /\ LinkTarget(link) = "_self"
     /\ ~isModifiedEvent(e)
  THEN handleClickDispatch(w, linkActionCreators(LinkAction(link), link.route,
                                                 link.params, link.hash))
  ELSE w

handleClick(w, link, e) == handleClickAfter(w, link, onClick(link, e))

\* the event a test clicks with, and what it may change
mockEvent ==
  [defaultPrevented |-> FALSE, button |-> 0, metaKey |-> FALSE,
   altKey |-> FALSE, ctrlKey |-> FALSE, shiftKey |-> FALSE]

ClickEvents ==
  {mockEvent,
   [mockEvent EXCEPT !.defaultPrevented = TRUE],
   [mockEvent EXCEPT !.button = 1],
   [mockEvent EXCEPT !.metaKey = TRUE],
   [mockEvent EXCEPT !.altKey = TRUE],
   [mockEvent EXCEPT !.ctrlKey = TRUE],
   [mockEvent EXCEPT !.shiftKey = TRUE],
   [mockEvent EXCEPT !.button = 1, !.shiftKey = TRUE]}

\* <Link route=... params=... hash=... action=... target=... onClick=... />
LinkTo(route, params, hash, action, target, handler) ==
  [route |-> route, params |-> params, hash |-> hash, action |-> action,
   target |-> target, onClick |-> handler]

\* the links of the page
Links ==
  {LinkTo("home", NoParams, "", undefinedStr, undefinedStr, undefinedStr),
   LinkTo("item", [k \in {"id"} |-> "1"], "h", "replace", "_self", undefinedStr),
   LinkTo("item", [k \in {"id"} |-> "1"], "h", "open", undefinedStr, undefinedStr),
   LinkTo("home", NoParams, "", "push", "_blank", undefinedStr),
   LinkTo("item", [k \in {"id"} |-> "1"], "", undefinedStr, undefinedStr,
          "preventDefault"),
   LinkTo("home", NoParams, "", "replace", "", undefinedStr),
   LinkTo("notFound", NoParams, "", undefinedStr, undefinedStr, undefinedStr)}

\* the property route of the Match components of the page
MatchRoutes ==
  {Name("home"), Name("item"), Name("notFound"),
   ArrayOf(<<"home", "item">>), ArrayOf(<<>>)}

\* createMemoryHistory({ initialEntries });
\* createMiddleware(router, history)(store);
\* <Routable router={router} history={history}> mounted
ReactInit ==
  /\ router \in Routers
  /\ \E location \in InitialLocations :
       /\ entries = <<location>>
       /\ currentRoute = RoutableInitial(location)
  /\ index = 1
  /\ previous = undefined
  /\ dispatched = <<>>
  /\ forwarded = <<>>
  /\ calls = <<>>
  /\ opened = <<>>
  /\ thrown = undefined
  /\ returned = undefined
  /\ event = [op |-> "mount"]
  /\ changed = undefined
  /\ seen = undefined
  /\ state = [i \in DOMAIN Reducers |->
                paramsReducer(Reducers[i].matchable, Reducers[i].rest,
                              undefinedStr, ReduxInit)]
  /\ config = undefinedObject
  /\ result = undefined
  /\ listeners = <<"historyListener", "Routable">>
  /\ clicked = NoClick
  /\ heap = <<>>
  /\ delivered = <<>>
  /\ flagged = [open |-> {}, foreign |-> FALSE]
  /\ reaction = NoReaction

\* the user clicks a link that is rendered
ClickLink ==
  \E link \in Links : \E e \in ClickEvents :
    /\ LinkRenders(link)
    /\ LinkAction(link) = "push" => index < MaxEntries
    /\ Apply("click", [link |-> link, event |-> e], handleClick(World, link, e))

ReactNext ==
  \/ ClickLink
  \/ LocationReplaced
  \/ DispatchSync
  \/ DispatchGoBack

ReactSpec == ReactInit /\ [][ReactNext]_vars

(***************************************************************************)
(* Configuration values as objects.  A configuration value is an object    *)
(* with an identity and the children of a Scope or a Router are references *)
(* to such objects, so that a write to an object built earlier would show. *)
(* heap[a] is the object at the address a; the children of a Scope or a    *)
(* Router in the heap are addresses.                                       *)
(***************************************************************************)
\* the most objects built
MaxHeap == 6

\* the value of the object at an address, its children read through
Deref(h, a) ==
  IF h[a].constructor \in {"Scope", "Router"}
  THEN [h[a] EXCEPT !.children = [i \in DOMAIN h[a].children |->
                                   h[h[a].children[i]]]]
  ELSE h[a]

\* the outcome of a constructor call in the heap h: it threw and left the
\* heap alone, or it returned the object at the last address of the heap it
\* left
Built(h, threw) == [threw |-> threw, heap |-> h]

\* mutant: Scope writes the scoped children over the children of the router
ScopeObjectInPlace(h, base, a, value) ==
  IF value = TypeError
  THEN Built(h, TRUE)
  ELSE Built([b \in DOMAIN h |->
                IF \E i \in DOMAIN h[a].children : h[a].children[i] = b
                THEN value.children[CHOOSE i \in DOMAIN h[a].children :
                                      h[a].children[i] = b]
                ELSE h[b]]
             \o <<[constructor |-> "Scope", base |-> base,
                   children |-> h[a].children]>>,
             FALSE)

\* Scope(base, router) for the router at the address a, value what the
\* call computes: router.children.map(...) builds a new object for every
\* child and a new Array of them, createConfig a new Scope
ScopeObject(h, base, a, value) ==
  IF value = TypeError
  THEN Built(h, TRUE)
  ELSE Built(h \o value.children
               \o <<[constructor |-> "Scope", base |-> base,
                     children |-> [i \in DOMAIN value.children |-> Len(h) + i]]>>,
             FALSE)

\* children.reduce(...) on references: concat copies the references to the
\* children of a Scope and to the other children into a new Array
RECURSIVE ResolveReferences(_, _)
ResolveReferences(h, as) ==
  IF as = <<>>
  THEN <<>>
  ELSE (IF h[Head(as)].constructor = "Scope"
        THEN h[Head(as)].children
        ELSE <<Head(as)>>)
       \o ResolveReferences(h, Tail(as))

\* Router(children) for the objects at the addresses as, value what the call
\* computes
RouterObject(h, as, value) ==
  IF value = TypeError
  THEN Built(h, TRUE)
  ELSE Built(Append(h, [constructor |-> "Router",
                        children |-> ResolveReferences(h, as)]),
             FALSE)

\* Route, Redirect and Fallback return a new object
LeafObject(h, value) ==
  IF value = TypeError THEN Built(h, TRUE) ELSE Built(Append(h, value), FALSE)

\* the arguments of the calls
HeapLeaves ==
  {Route("item", <<Param("id")>>),
   Redirect("item", <<Lit("old"), Param("id")>>)}

HeapBases == {<<Lit("user")>>, <<Lit("shop")>>}

\* the Arrays of one or two of the objects built, in the order they were
\* built in
HeapArrays(h) ==
  {<<a>> : a \in DOMAIN h}
  \cup {as \in (DOMAIN h) \X (DOMAIN h) : as[1] < as[2]}

HeapLocations == {Loc(<<"user", "7">>, <<>>, "")}

HeapInit ==
  /\ router = EmptyRouter
  /\ entries = <<Loc(<<"">>, <<>>, "")>>
  /\ index = 1
  /\ previous = undefined
  /\ dispatched = <<>>
  /\ forwarded = <<>>
  /\ calls = <<>>
  /\ opened = <<>>
  /\ thrown = undefined
  /\ returned = undefined
  /\ event = [op |-> "start"]
  /\ changed = undefined
  /\ seen = undefined
  /\ state = <<>>
  /\ config = undefinedObject
  /\ result = undefined
  /\ listeners = <<>>
  /\ currentRoute = undefinedObject
  /\ clicked = NoClick
  /\ heap = <<>>
  /\ delivered = <<>>
  /\ flagged = [open |-> {}, foreign |-> FALSE]
  /\ reaction = NoReaction

\* the state after a call on input that left the heap h and returned value
\* or threw
OnHeap(op, input, h, threw, value) ==
  /\ event' = [op |-> op, input |-> input]
  /\ heap' = h
  /\ thrown' = IF threw THEN TypeError ELSE undefined
  /\ result' = value
  /\ UNCHANGED <<router, entries, index, previous, dispatched, forwarded,
                 calls, opened, returned, changed, seen, state, config,
                 listeners, currentRoute, clicked, delivered, reaction,
                 flagged>>

AfterBuilt(op, input, built) ==
  OnHeap(op, input, built.heap, built.threw, undefined)

BuildLeaf ==
  /\ Len(heap) < MaxHeap
  /\ \E value \in HeapLeaves :
       AfterBuilt(value.constructor, value, LeafObject(heap, value))

BuildScope ==
  \E base \in HeapBases : \E a \in DOMAIN heap :
    /\ Len(heap) + (IF heap[a].constructor = "Router"
                    THEN Len(heap[a].children) ELSE 0) < MaxHeap
    /\ AfterBuilt("Scope", [base |-> base, router |-> a],
                  ScopeObject(heap, base, a, Scope(base, Deref(heap, a))))

BuildRouter ==
  /\ Len(heap) < MaxHeap
  /\ \E as \in HeapArrays(heap) :
       AfterBuilt("Router", as,
                  RouterObject(heap, as,
                               Router([i \in DOMAIN as |-> Deref(heap, as[i])])))

\* locationToRoute(router, location) for a router of the heap
TranslateOnHeap ==
  \E a \in DOMAIN heap : \E location \in HeapLocations :
    /\ heap[a].constructor = "Router"
    /\ OnHeap("locationToRoute", [router |-> a, location |-> location], heap,
              FALSE, locationToRoute(Deref(heap, a), location))

\* match(route, matchable) for an object of the heap
MatchOnHeap ==
  \E a \in DOMAIN heap :
    OnHeap("match", [route |-> "item", matchable |-> a], heap, FALSE,
           [value |-> match("item", Deref(heap, a))])

\* createMiddleware(router, history)(store) for a router of the heap and
\* the dispatch of sync()
DispatchOnHeap ==
  \E a \in DOMAIN heap :
    /\ heap[a].constructor = "Router"
    /\ OnHeap("dispatch", [router |-> a, action |-> sync], heap, FALSE,
              DispatchedActions(Middleware(Deref(heap, a), World, sync)))

HeapNext ==
  \/ BuildLeaf
  \/ BuildScope
  \/ BuildRouter
  \/ TranslateOnHeap
  \/ MatchOnHeap
  \/ DispatchOnHeap

HeapSpec == HeapInit /\ [][HeapNext]_vars

(***************************************************************************)
(* Properties                                                              *)
(***************************************************************************)
IntentTypes == {SYNC, PUSH, REPLACE, OPEN, GO, GO_BACK, GO_FORWARD}

\* the last event was store.dispatch of an action with one of these types
Dispatched(types) == event.op = "dispatch" /\ event.input.type \in types

\* the last event delivered a location to the history listener from outside
\* the middleware's own navigation: a location change, or SYNC
LocationDelivered == event.op = "replace" \/ Dispatched({SYNC})

ActionsOf(log) == [i \in DOMAIN log |-> log[i].action]

Matching(children, pathname) ==
  {i \in DOMAIN children : PatternTest(children[i].pattern, pathname)}

\* C1 as stated: every ROUTE_CHANGED the middleware dispatches carries as
\* meta.previous the payload of the ROUTE_CHANGED the middleware dispatched
\* before it, undefined for the first one.
C1_PreviousIsOwnLastNotification ==
  [][\A i \in DOMAIN dispatched' :
       dispatched'[i].action.type = ROUTE_CHANGED =>
         dispatched'[i].action.meta.previous =
           LastChanged(SubSeq(ActionsOf(dispatched'), 1, i - 1), changed)]_vars

\* C1 amended: every ROUTE_CHANGED the middleware dispatches carries as
\* meta.previous the payload of the last action of type ROUTE_CHANGED that
\* went through the middleware before it, whoever dispatched that action,
\* undefined when there was none.
C1_PreviousIsLastSeen ==
  [][\A i \in DOMAIN dispatched' :
       dispatched'[i].action.type = ROUTE_CHANGED =>
         dispatched'[i].action.meta.previous =
           LastChanged(SubSeq(ActionsOf(dispatched'), 1, i - 1), seen)]_vars

C1_Witness ==
  /\ Len(dispatched) = 1
  /\ dispatched[1].action.type = ROUTE_CHANGED
  /\ dispatched[1].action.meta.previous # undefined
  /\ dispatched[1].action.meta.previous.route = "home"
  /\ dispatched[1].action.payload.route = "item"

\* C2 as stated: previous changes only in an event in which the middleware
\* resolved a location and dispatched ROUTE_CHANGED.
C2_PreviousChangesOnlyOnNotifying ==
  [][previous' # previous =>
       \E i \in DOMAIN dispatched' :
         /\ dispatched'[i].action.type = ROUTE_CHANGED
         /\ previous' = dispatched'[i].action.payload]_vars

\* C2 amended: previous changes only in an event in which an action of type
\* ROUTE_CHANGED reaches the pass-through branch (the middleware's own
\* notification, or an action of that type dispatched by the application),
\* and it becomes that action's payload; no Fault, Redirecting step,
\* navigation intent, ROUTE_NOT_MATCHED or action of another type changes it.
C2_PreviousChangesOnlyOnRouteChanged ==
  [][previous' # previous =>
       \E i \in DOMAIN forwarded' :
         /\ forwarded'[i].type = ROUTE_CHANGED
         /\ previous' = forwarded'[i].payload]_vars

C2_Witness ==
  /\ Dispatched({ROUTE_CHANGED})
  /\ previous = event.input.payload
  /\ changed # undefined
  /\ changed # previous

\* C3 as stated: a PUSH, REPLACE or OPEN that ends in ROUTE_NOT_MATCHED leaves
\* the history's entries and its current position as they were.
C3_NotMatchedLeavesHistory ==
  [][(/\ event'.op = "dispatch"
      /\ event'.input.type \in {PUSH, REPLACE, OPEN}
      /\ \E i \in DOMAIN dispatched' :
           dispatched'[i].action.type = ROUTE_NOT_MATCHED)
     => entries' = entries /\ index' = index]_vars

\* the first Route named name, or 0
RouteNamed(children, name) ==
  LET is == {i \in DOMAIN children :
               children[i].constructor = "Route" /\ children[i].name = name}
  IN IF is = {} THEN 0 ELSE CHOOSE i \in is : \A j \in is : i <= j

\* a placeholder of the path that is required and that params does not hold
LacksPlaceholder(path, params) ==
  \E i \in DOMAIN path :
    /\ path[i].kind = "param"
    /\ ~path[i].optional
    /\ path[i].name \notin DOMAIN params

C5_ListenerNeverThrows == LocationDelivered => thrown = undefined

C7_IntentsAreNotForwarded ==
  \A i \in DOMAIN forwarded : forwarded[i].type \notin IntentTypes

C7_Witness ==
  /\ Dispatched({GO})
  /\ Len(forwarded) = 1
  /\ forwarded[1].type = ROUTE_CHANGED

\* C8: an action whose type is none of the seven intent types is handed to
\* next once and unchanged, the result of next is returned, and no history
\* method is called.
C8_OtherActionsPassThrough ==
  (event.op = "dispatch" /\ event.input.type \notin IntentTypes)
  => /\ forwarded = <<event.input>>
     /\ returned = [next |-> event.input]
     /\ calls = <<>>
     /\ opened = <<>>
     /\ thrown = undefined

C8_Witness ==
  /\ Dispatched({"TEST"})
  /\ forwarded = <<event.input>>
  /\ Len(entries) = 2

\* the locations the model resolves
ResolvedLocations == Locations \cup {entries[i] : i \in DOMAIN entries}

\* C9: locationToRoute returns the entry that comes first, in the flattened
\* list, among those whose pattern accepts the pathname.
C9_FirstMatchWins ==
  \A location \in ResolvedLocations :
    LET r == locationToRoute(router, location)
        matching == Matching(router.children, location.pathname)
    IN r.thrown = undefined =>
         \E i \in matching :
           /\ r.route = router.children[i]
           /\ \A j \in matching : i <= j

C9_Witness ==
  /\ Cardinality(Matching(router.children, entries[index].pathname)) = 3
  /\ locationToRoute(router, entries[index]).route.to = "missing"

\* C10: every ROUTE_CHANGED the middleware dispatches names, as payload.route,
\* the first entry that accepts the location it resolved, that entry is a
\* Route or a Fallback, never a Redirect, and payload.hash is that
\* location's hash.
C10_RouteChangedNamesFirstMatch ==
  \A i \in DOMAIN dispatched :
    dispatched[i].action.type = ROUTE_CHANGED =>
      LET location == dispatched[i].cause
          matching == Matching(router.children, location.pathname)
      IN \E m \in matching :
           /\ \A j \in matching : m <= j
           /\ router.children[m].constructor \in {"Route", "Fallback"}
           /\ dispatched[i].action.payload.route = router.children[m].name
           /\ dispatched[i].action.payload.hash = location.hash

C10_Witness ==
  /\ event.op = "replace"
  /\ event.input.pathname = <<"product", "2">>
  /\ Len(dispatched) = 1
  /\ dispatched[1].action.type = ROUTE_CHANGED
  /\ dispatched[1].action.payload.route = "item"

\* the first entry whose pattern accepts the pathname, or 0
FirstMatch(children, pathname) ==
  LET matching == Matching(children, pathname)
  IN IF matching = {} THEN 0 ELSE CHOOSE i \in matching : \A j \in matching : i <= j

\* C11 as stated: when the first entry that accepts a changed location is a
\* Redirect to T, the middleware calls history.replace, and never
\* history.push, with routeToLocation(T, params, hash) of that location's
\* params and hash, and the notification that follows is a ROUTE_CHANGED with
\* route T and those params.
C11_RedirectReplacesAndNotifies ==
  (/\ event.op = "replace"
   /\ FirstMatch(router.children, event.input.pathname) # 0
   /\ router.children[FirstMatch(router.children, event.input.pathname)].constructor
        = "Redirect")
  => LET redirect == router.children[FirstMatch(router.children,
                                                event.input.pathname)]
         r == locationToRoute(router, event.input)
         t == routeToLocation(router, redirect.to, r.params, r.hash)
     IN /\ t.thrown = undefined
        /\ Len(calls) >= 1
        /\ calls[1] = [method |-> "replace", argument |-> t.location]
        /\ \A i \in DOMAIN calls : calls[i].method # "push"
        /\ Len(dispatched) >= 1
        /\ dispatched[1].action.type = ROUTE_CHANGED
        /\ dispatched[1].action.payload.route = redirect.to
        /\ dispatched[1].action.payload.params = r.params

\* the calls of history.replace the listener made for Redirects in the last
\* event (a REPLACE intent makes the first call of history.replace itself)
RedirectReplaces ==
  {i \in DOMAIN calls :
     calls[i].method = "replace" /\ (i > 1 \/ ~Dispatched({REPLACE}))}

\* C12 as stated: handling one location change ends, after at most one
\* history.replace for a Redirect; the recursion through the history never
\* goes on without end.
C12_OneRedirectAndTermination ==
  (event.op \in {"replace", "dispatch"})
  => /\ thrown # RangeError
     /\ Cardinality(RedirectReplaces) <= 1

\* C13: SYNC makes the middleware dispatch what a location change to the
\* current location of the history makes it dispatch: LOCATION_NOT_MATCHED
\* for that location when no entry accepts it, and ROUTE_CHANGED with the
\* route, params and hash resolved from it when the first entry accepting it
\* is a Route or a Fallback.
C13_SyncResolvesCurrentLocation ==
  [][(event'.op = "dispatch" /\ event'.input.type = SYNC)
     => /\ ActionsOf(dispatched') =
             ActionsOf(historyReplace(router, World, entries[index]).dispatched)
        /\ LET r == locationToRoute(router, entries[index])
           IN /\ r.thrown # undefined =>
                   ActionsOf(dispatched') =
                     <<locationNotMatched(LocationMatchError, entries[index])>>
              /\ (r.thrown = undefined /\ r.route.constructor # "Redirect") =>
                   ActionsOf(dispatched') =
                     <<routeChanged(r.route.name, r.params, r.hash, previous)>>]_vars

C13_Witness ==
  /\ Dispatched({SYNC})
  /\ index = 2
  /\ entries[1] # entries[2]
  /\ Len(dispatched) = 1
  /\ dispatched[1].action.type = ROUTE_CHANGED
  /\ dispatched[1].action.payload.route = "item"
  /\ dispatched[1].action.payload.params =
       locationToRoute(router, entries[index]).params

\* C14 as stated: SYNC leaves the history's entries and its current position
\* as they were.
C14_SyncLeavesHistory ==
  [][(event'.op = "dispatch" /\ event'.input.type = SYNC)
     => entries' = entries /\ index' = index]_vars

\* C14 amended: SYNC never pushes and never moves: the number of entries, the
\* current position and every entry but the current one stay as they were;
\* the current entry changes only when the first entry of the router that
\* accepts it is a Redirect, and then by the listener's history.replace: it
\* becomes the location the listener gave to history.replace last.
C14_SyncOnlyReplacesForRedirect ==
  [][(event'.op = "dispatch" /\ event'.input.type = SYNC)
     => /\ index' = index
        /\ Len(entries') = Len(entries)
        /\ \A i \in DOMAIN entries : i # index => entries'[i] = entries[i]
        /\ \A i \in DOMAIN calls' : calls'[i].method = "replace"
        /\ entries'[index] # entries[index] =>
             /\ FirstMatch(router.children, entries[index].pathname) # 0
             /\ router.children[FirstMatch(router.children,
                                           entries[index].pathname)].constructor
                  = "Redirect"
             /\ calls' # <<>>
             /\ entries'[index] = calls'[Len(calls')].argument]_vars

C14_Witness ==
  /\ Dispatched({SYNC})
  /\ Len(entries) = 1
  /\ calls = <<[method |-> "replace", argument |-> entries[1]]>>
  /\ entries[1].pathname = <<"item", "2">>
  /\ Len(dispatched) = 1
  /\ dispatched[1].action.type = ROUTE_CHANGED

\* the outcome of routeToLocation for the payload of the last intent
Translated ==
  routeToLocation(router, event.input.payload.route, event.input.payload.params,
                  event.input.payload.hash)

Unambiguous(children, i, pathname) ==
  /\ \A j \in Matching(children, pathname) :
       j # i => children[j].constructor = "Fallback"
  /\ \A j \in DOMAIN children :
       (children[j].constructor = "Route" /\ children[j].name = children[i].name)
         => j = i

\* the pathnames differ at most by one trailing slash and by letter case
SamePathname(a, b) ==
  LET lower(p) == [i \in DOMAIN p |-> Lower(p[i])]
  IN \/ lower(a) = lower(b)
     \/ lower(a) = lower(b) \o <<"">>
     \/ lower(b) = lower(a) \o <<"">>

\* C16 as stated: a location whose first matching entry is a Route, in a
\* router where that match is not ambiguous, is translated by locationToRoute
\* and back by routeToLocation to a location with the same pathname, the
\* same query parameters and the same hash.
C16_LocationRoundTripsExactly ==
  \A loc \in ResolvedLocations :
    LET m == FirstMatch(router.children, loc.pathname)
    IN (/\ m # 0
        /\ router.children[m].constructor = "Route"
        /\ Unambiguous(router.children, m, loc.pathname))
       => LET r == locationToRoute(router, loc)
              t == routeToLocation(router, r.route.name, r.params, r.hash)
          IN /\ t.thrown = undefined
             /\ t.location.pathname = loc.pathname
             /\ QueryParse(t.location.search) = QueryParse(loc.search)
             /\ t.location.hash = loc.hash

\* C16 amended: when, moreover, no key of the location's query string is a
\* placeholder of the Route, the round trip gives the same query parameters
\* and the same hash, and a pathname that the same Route accepts first and
\* that differs from the location's at most by a trailing slash and by the
\* letter case of the template's literal segments.
C16_LocationRoundTripsUpToSpelling ==
  \A loc \in ResolvedLocations :
    LET m == FirstMatch(router.children, loc.pathname)
    IN (/\ m # 0
        /\ router.children[m].constructor = "Route"
        /\ Unambiguous(router.children, m, loc.pathname)
        /\ \A k \in DOMAIN QueryParse(loc.search) :
             ~Includes(getPathParamNames(router.children[m].path), k))
       => LET r == locationToRoute(router, loc)
              t == routeToLocation(router, r.route.name, r.params, r.hash)
          IN /\ t.thrown = undefined
             /\ SamePathname(t.location.pathname, loc.pathname)
             /\ FirstMatch(router.children, t.location.pathname) = m
             /\ QueryParse(t.location.search) = QueryParse(loc.search)
             /\ t.location.hash = loc.hash

C16_Witness ==
  /\ event.op = "replace"
  /\ event.input.pathname = <<"ITEM", "2", "">>
  /\ Len(dispatched) = 1
  /\ dispatched[1].action.type = ROUTE_CHANGED
  /\ dispatched[1].action.payload.route = "item"
  /\ routeToLocation(router, "item", dispatched[1].action.payload.params,
                     dispatched[1].action.payload.hash).location
       = Loc(<<"item", "2">>, << <<"q", "1">> >>, "")

\* the router has a Fallback declared with the path ''
HasEmptyFallback(children) ==
  \E i \in DOMAIN children :
    /\ children[i].constructor = "Fallback"
    /\ children[i].pattern.tokens = <<>>

\* C17: with a Fallback of the path '' among the entries of the router, at any
\* position, locationToRoute throws LocationMatchError for no location and
\* the middleware never dispatches LOCATION_NOT_MATCHED.
C17_EmptyFallbackAlwaysMatches ==
  HasEmptyFallback(router.children)
  => /\ \A loc \in ResolvedLocations :
          locationToRoute(router, loc).thrown = undefined
     /\ \A i \in DOMAIN dispatched :
          dispatched[i].action.type # LOCATION_NOT_MATCHED
     /\ thrown # LocationMatchError

C17_Witness ==
  /\ HasEmptyFallback(router.children)
  /\ event.op = "replace"
  /\ event.input.pathname = <<"x">>
  /\ Matching(router.children, <<"x">>) =
       {i \in DOMAIN router.children : router.children[i].constructor = "Fallback"}
  /\ Len(dispatched) = 1
  /\ dispatched[1].action.type = ROUTE_CHANGED
  /\ dispatched[1].action.payload.route = "notFound"

\* the names routeToLocation is probed with: names of Routes, of a Fallback,
\* the target of a Redirect that no Route has, and a name no entry has
ProbedNames == {"home", "item", "notFound", "missing", "nowhere"}

\* C18: routeToLocation resolves the name among the Route entries only and
\* takes the first Route of that name in the flattened list: a name that only
\* a Fallback or a Redirect carries, or that no entry carries, throws
\* RouteMatchError, and the pathname is filled from the template of the first
\* Route of the name, never from a later one.
C18_NameResolvesToFirstRoute ==
  \A name \in ProbedNames : \A target \in Targets :
    LET t == routeToLocation(router, name, target.params, target.hash)
        n == RouteNamed(router.children, name)
    IN /\ n = 0 => t.thrown = RouteMatchError
       /\ (n # 0 /\ t.thrown = undefined) =>
            /\ CompilePath(router.children[n].path, target.params).ok
            /\ t.location.pathname =
                 CompilePath(router.children[n].path, target.params).pathname
       /\ (n # 0 /\ t.thrown # undefined) =>
            /\ t.thrown = RouteMatchError
            /\ ~CompilePath(router.children[n].path, target.params).ok

C18_Witness ==
  /\ Dispatched({PUSH})
  /\ event.input.payload.route = "home"
  /\ Cardinality({i \in DOMAIN router.children :
                    /\ router.children[i].constructor = "Route"
                    /\ router.children[i].name = "home"}) = 2
  /\ calls = <<[method |-> "push", argument |-> Loc(<<"">>, <<>>, "")]>>
  /\ Len(dispatched) = 1
  /\ dispatched[1].action.type = ROUTE_CHANGED

\* the names of the placeholders of a path template
Placeholders(path) == {path[i].name : i \in {j \in DOMAIN path : path[j].kind = "param"}}

\* C19: routeToLocation splits the params by the placeholders of the Route's
\* template: the pathname is the template with every placeholder replaced by
\* the param of its name, the query string holds one pair for every other
\* key, with the param's value, and nothing else, and the hash is the one
\* given.
C19_ParamsArePartitioned ==
  \A target \in Targets :
    LET n == RouteNamed(router.children, target.route)
        t == routeToLocation(router, target.route, target.params, target.hash)
    IN (n # 0 /\ t.thrown = undefined) =>
         LET path == router.children[n].path
             pathname == t.location.pathname
             search == t.location.search
             others == DOMAIN target.params \ Placeholders(path)
         IN /\ Len(pathname) = Len(path)
            /\ \A i \in DOMAIN path :
                 pathname[i] = IF path[i].kind = "param"
                               THEN target.params[path[i].name]
                               ELSE path[i].seg
            /\ Len(search) = Cardinality(others)
            /\ \A k \in others :
                 \E i \in DOMAIN search : search[i] = <<k, target.params[k]>>
            /\ \A i \in DOMAIN search : search[i][1] \in others
            /\ t.location.hash = target.hash

C19_Witness ==
  /\ Dispatched({PUSH})
  /\ event.input.payload.route = "item"
  /\ DOMAIN event.input.payload.params = {"id", "q"}
  /\ calls # <<>>
  /\ calls[1] = [method |-> "push",
                 argument |-> Loc(<<"item", "2">>, << <<"q", "1">> >>, "")]

\* the value of a key in a query string
QueryValue(search, k) ==
  search[CHOOSE i \in DOMAIN search : search[i][1] = k][2]

\* C20: the params locationToRoute returns hold the keys of the query string
\* with their query values, and the placeholders that captured a segment and
\* are no key of the query string with the captured value; no other key.
C20_QueryOverlaysPath ==
  \A loc \in ResolvedLocations :
    LET m == FirstMatch(router.children, loc.pathname)
    IN m # 0 =>
         LET names == getPathParamNames(router.children[m].path)
             caps == PatternExec(router.children[m].pattern, loc.pathname).caps
             captured == {i \in DOMAIN names :
                            i \in DOMAIN caps /\ caps[i] # undefinedStr}
             queryKeys == {loc.search[i][1] : i \in DOMAIN loc.search}
             params == locationToRoute(router, loc).params
         IN /\ DOMAIN params = queryKeys \cup {names[i] : i \in captured}
            /\ \A k \in queryKeys : params[k] = QueryValue(loc.search, k)
            /\ \A i \in captured :
                 names[i] \notin queryKeys => params[names[i]] = caps[i]

C20_Witness ==
  /\ event.op = "replace"
  /\ event.input = Loc(<<"item", "1", "">>, << <<"id", "2">> >>, "#h")
  /\ Len(dispatched) = 1
  /\ dispatched[1].action.type = ROUTE_CHANGED
  /\ dispatched[1].action.payload.route = "item"
  /\ dispatched[1].action.payload.params = [k \in {"id"} |-> "2"]

\* the last event was a call of this constructor, translator or helper
CalledOp(op) == event.op = op

\* the keys of a query string
QueryKeys(search) == {search[i][1] : i \in DOMAIN search}

\* the placeholders of the template an entry was declared with, in order
\* (the pattern is compiled from the declared template)
DeclaredPlaceholders(entry) == ParamNames(entry.pattern.tokens)

\* C21: when locationToRoute matches an entry of any kind, every placeholder
\* of the entry's template that captured a value in the pathname is a key of
\* the params with the captured value (unless the query string sets the same
\* key), and a placeholder that captured nothing is no key of the params
\* (unless the query string sets it).
C21_CapturedPlaceholdersBecomeParams ==
  (CalledOp("locationToRoute") /\ result.thrown = undefined) =>
    LET entry == result.route
        names == DeclaredPlaceholders(entry)
        caps == PatternExec(entry.pattern, event.input.pathname).caps
        keys == QueryKeys(event.input.search)
    IN \A i \in DOMAIN names :
         IF caps[i] # undefinedStr
         THEN /\ names[i] \in DOMAIN result.params
              /\ names[i] \notin keys => result.params[names[i]] = caps[i]
         ELSE names[i] \in DOMAIN result.params => names[i] \in keys

\* the template an entry was declared with: its path, and for a Fallback,
\* whose path is not kept, the template its pattern was compiled from
DeclaredTemplate(entry) ==
  IF entry.constructor = "Fallback" THEN entry.pattern.tokens ELSE entry.path

\* the pathnames the patterns are compared on
ProbedPathnames == {location.pathname : location \in ConfigLocations}

\* C22: Scope(base, router) keeps, for every entry of router, the kind and
\* the name or target, and the scoped entry accepts exactly the pathnames
\* that the template base + (the entry's declared template) accepts, as a
\* prefix for a Fallback and in full for a Route or Redirect.
C22_ScopePrefixesEveryEntry ==
  (CalledOp("Scope") /\ thrown = undefined) =>
    LET base == event.input.base
        children == event.input.router.children
    IN /\ Len(config.children) = Len(children)
       /\ \A i \in DOMAIN children :
            /\ config.children[i].constructor = children[i].constructor
            /\ config.children[i].name = children[i].name
            /\ config.children[i].to = children[i].to
            /\ \A pathname \in ProbedPathnames :
                 PatternTest(config.children[i].pattern, pathname)
                 = PatternTest(
                     pathToRegexp(base \o DeclaredTemplate(children[i]),
                                  children[i].constructor # "Fallback"),
                     pathname)

\* the last event was Scope(base, router) on a Router that holds a Fallback
ScopeOverFallback ==
  /\ CalledOp("Scope")
  /\ event.input.router.constructor = "Router"
  /\ \E i \in DOMAIN event.input.router.children :
       event.input.router.children[i].constructor = "Fallback"

Contribution(child) ==
  IF child.constructor = "Scope" THEN child.children ELSE <<child>>

\* the contributions of the children, one after the other in input order
RECURSIVE Contributions(_)
Contributions(children) ==
  IF children = <<>>
  THEN <<>>
  ELSE Contribution(Head(children)) \o Contributions(Tail(children))

\* C24: the entries of Router(children) are the contributions of the children
\* in input order: a Route, Redirect or Fallback itself, and the rewritten
\* children of a Scope, in their own order, at the place of the Scope.
C24_EntriesAreContributionsInOrder ==
  (CalledOp("Router") /\ thrown = undefined) =>
    /\ config.constructor = "Router"
    /\ config.children = Contributions(event.input.children)

C24_Witness ==
  /\ CalledOp("Router")
  /\ thrown = undefined
  /\ Len(event.input.children) = 3
  /\ event.input.children[2].constructor = "Scope"
  /\ Len(event.input.children[2].children) = 2
  /\ event.input.children[2].children[1] # event.input.children[2].children[2]
  /\ config.children = <<FirstChild, event.input.children[2].children[1],
                          event.input.children[2].children[2], LastChild>>

\* C25: Router(children) throws TypeError whenever a Router is among the
\* children, at whatever position and also when that Router has no entries.
C25_RouterInRouterFails ==
  (/\ CalledOp("Router")
   /\ instanceofArray(event.input.children)
   /\ \E i \in DOMAIN event.input.children :
        event.input.children[i].constructor = "Router") =>
    thrown = TypeError

C25_Witness ==
  /\ CalledOp("Router")
  /\ Len(event.input.children) = 3
  /\ event.input.children[2] = Router(<<>>)
  /\ thrown = TypeError
  /\ config = Router(<<>>)

\* the arguments of the last constructor call are invalid
InvalidArguments ==
  \/ /\ event.op \in {"Route", "Fallback"}
     /\ event.input.name = undefinedStr \/ event.input.path = NotAString
  \/ /\ event.op = "Redirect"
     /\ event.input.to = undefinedStr \/ event.input.path = NotAString
  \/ /\ event.op = "Scope"
     /\ \/ event.input.base = NotAString
        \/ event.input.router.constructor # "Router"
  \/ /\ event.op = "Router"
     /\ \/ event.input.children = NotAnArray
        \/ \E i \in DOMAIN event.input.children :
             event.input.children[i].constructor
               \notin {"Route", "Redirect", "Fallback", "Scope"}

\* an entry as the constructors are meant to build it
ValidEntry(entry) ==
  /\ entry.constructor \in {"Route", "Redirect", "Fallback"}
  /\ entry.constructor \in {"Route", "Fallback"} => entry.name # undefinedStr
  /\ entry.constructor = "Redirect" => entry.to # undefinedStr
  /\ \A i \in DOMAIN entry.path : entry.path[i].kind \in {"lit", "param"}
  /\ \A i \in DOMAIN entry.pattern.tokens :
       entry.pattern.tokens[i].kind \in {"lit", "param"}

\* C26: a constructor call with an invalid argument throws TypeError at the
\* call, and nothing invalid is left for later: every value a constructor
\* returned holds valid entries only, and locationToRoute on a built Router
\* throws nothing but LocationMatchError.
C26_InvalidConfigurationIsRejectedEagerly ==
  /\ InvalidArguments => thrown = TypeError
  /\ config.constructor \in {"Route", "Redirect", "Fallback"} =>
       ValidEntry(config)
  /\ config.constructor \in {"Scope", "Router"} =>
       \A i \in DOMAIN config.children : ValidEntry(config.children[i])
  /\ CalledOp("locationToRoute") =>
       result.thrown \in {undefined, LocationMatchError}

C26_Witness ==
  /\ CalledOp("Fallback")
  /\ event.input.name = "home"
  /\ event.input.path = NotAString
  /\ thrown = TypeError
  /\ config.constructor = "Router"
  /\ Len(config.children) = 4

\* entered, told from the route of a notification and the payload of the
\* ROUTE_CHANGED before it
Enters(matchable, route, before) ==
  /\ match(route, matchable)
  /\ before = undefined \/ ~match(before.route, matchable)

\* C27 as stated: for every ROUTE_CHANGED the middleware dispatches,
\* entered(matchable) is true exactly when its route matches and the route
\* of the ROUTE_CHANGED the middleware dispatched before it does not (or
\* there is none before it).
C27_EnteredOnOwnTransitions ==
  [][\A i \in DOMAIN dispatched' :
       dispatched'[i].action.type = ROUTE_CHANGED =>
         \A m \in DOMAIN Matchables :
           entered(Matchables[m], dispatched'[i].action)
           <=> Enters(Matchables[m], dispatched'[i].action.payload.route,
                      LastChanged(SubSeq(ActionsOf(dispatched'), 1, i - 1),
                                  changed))]_vars

\* C27 amended: for every ROUTE_CHANGED the middleware dispatches,
\* entered(matchable) is true exactly when its route matches and the route
\* of the last action of type ROUTE_CHANGED that went through the middleware
\* before it, whoever dispatched that action, does not (or there is none).
C27_EnteredOnSeenTransitions ==
  [][\A i \in DOMAIN dispatched' :
       dispatched'[i].action.type = ROUTE_CHANGED =>
         \A m \in DOMAIN Matchables :
           entered(Matchables[m], dispatched'[i].action)
           <=> Enters(Matchables[m], dispatched'[i].action.payload.route,
                      LastChanged(SubSeq(ActionsOf(dispatched'), 1, i - 1),
                                  seen))]_vars

C27_Witness ==
  /\ Len(dispatched) = 1
  /\ dispatched[1].action.type = ROUTE_CHANGED
  /\ dispatched[1].action.payload.route = "item"
  /\ dispatched[1].action.meta.previous # undefined
  /\ dispatched[1].action.meta.previous.route = "item"
  /\ ~entered(Name("item"), dispatched[1].action)
  /\ changedTo(Name("item"), dispatched[1].action)
  /\ ~entered(Name("home"), dispatched[1].action)

\* exited, told from the fields of an action
Exits(matchable, action) ==
  /\ action.type = ROUTE_CHANGED
  /\ ~match(action.payload.route, matchable)
  /\ action.meta.previous # undefined
  /\ match(action.meta.previous.route, matchable)

\* for every action the middleware dispatched or handed to next in the last
\* step, exited is Exits, and it is false for an action of another type
ExitedByFields ==
  \A m \in DOMAIN Matchables :
    /\ \A i \in DOMAIN dispatched' :
         /\ exited(Matchables[m], dispatched'[i].action)
            <=> Exits(Matchables[m], dispatched'[i].action)
         /\ dispatched'[i].action.type # ROUTE_CHANGED =>
              ~exited(Matchables[m], dispatched'[i].action)
    /\ \A i \in DOMAIN forwarded' :
         /\ exited(Matchables[m], forwarded'[i])
            <=> Exits(Matchables[m], forwarded'[i])
         /\ forwarded'[i].type # ROUTE_CHANGED =>
              ~exited(Matchables[m], forwarded'[i])

\* C28 as stated: exited(matchable) is true exactly for a ROUTE_CHANGED whose
\* route does not match and whose meta.previous exists and matches; it is
\* false for every action of another type and for the first ROUTE_CHANGED
\* the middleware dispatches.
C28_ExitedFalseForFirstNotification ==
  [][/\ ExitedByFields
     /\ \A i \in DOMAIN dispatched' : \A m \in DOMAIN Matchables :
          (/\ dispatched'[i].action.type = ROUTE_CHANGED
           /\ LastChanged(SubSeq(ActionsOf(dispatched'), 1, i - 1), changed)
                = undefined)
          => ~exited(Matchables[m], dispatched'[i].action)]_vars

\* C28 amended: the same, but false for a ROUTE_CHANGED the middleware
\* dispatches when no action of type ROUTE_CHANGED went through the
\* middleware before it; after such an action went through, whoever
\* dispatched it, exited is told from its route.
C28_ExitedFalseWhenNoneSeen ==
  [][/\ ExitedByFields
     /\ \A i \in DOMAIN dispatched' : \A m \in DOMAIN Matchables :
          dispatched'[i].action.type = ROUTE_CHANGED =>
            LET before == LastChanged(
                            SubSeq(ActionsOf(dispatched'), 1, i - 1), seen)
            IN exited(Matchables[m], dispatched'[i].action)
               <=> /\ ~match(dispatched'[i].action.payload.route,
                             Matchables[m])
                   /\ before # undefined
                   /\ match(before.route, Matchables[m])]_vars

C28_Witness ==
  /\ Len(dispatched) = 1
  /\ dispatched[1].action.type = ROUTE_CHANGED
  /\ dispatched[1].action.payload.route = "home"
  /\ dispatched[1].action.meta.previous # undefined
  /\ dispatched[1].action.meta.previous.route = "item"
  /\ exited(Name("item"), dispatched[1].action)
  /\ ~exited(Name("home"), dispatched[1].action)
  /\ exited(Matchables[6], dispatched[1].action)

\* the awayVal of a reducer: the first of two arguments after matchable,
\* null when there is one
AwayVal(reducer) ==
  IF Len(reducer.rest) = 1 THEN null ELSE reducer.rest[1]

\* the paramsSelector of a reducer: the last argument
ParamsSelector(reducer) == reducer.rest[Len(reducer.rest)]

\* the slice after an action, as C29 states it
SliceAfter(reducer, slice, action) ==
  IF action.type = ROUTE_CHANGED
  THEN IF match(action.payload.route, reducer.matchable)
       THEN Select(ParamsSelector(reducer), action.payload.params)
       ELSE AwayVal(reducer)
  ELSE slice

RECURSIVE SliceAfterAll(_, _, _)
SliceAfterAll(reducer, slice, actions) ==
  IF actions = <<>>
  THEN slice
  ELSE SliceAfterAll(reducer, SliceAfter(reducer, slice, Head(actions)),
                     Tail(actions))

\* C29: the slice of a reducer built by paramsReducer starts at awayVal (null
\* when awayVal is omitted); every ROUTE_CHANGED that reaches the store makes
\* it paramsSelector(params) when the route matches and awayVal when it does
\* not; every other action leaves it as it was.
C29_ReducerFollowsRouteChanges ==
  [][\A i \in DOMAIN Reducers :
       /\ event.op = "createMiddleware" => state[i] = AwayVal(Reducers[i])
       /\ state'[i] = SliceAfterAll(Reducers[i], state[i], forwarded')]_vars

\* the route names reachable under a matchable: the name itself, the names
\* of an Array of names, the name of a Route or Fallback, the names of the
\* Routes and Fallbacks among the entries of a Router or Scope
ReachableNames(matchable) ==
  CASE matchable.constructor = "String" -> {matchable.value}
    [] matchable.constructor = "Array" ->
         {matchable.items[i].value : i \in DOMAIN matchable.items}
    [] matchable.constructor \in {"Route", "Fallback"} -> {matchable.name}
    [] matchable.constructor \in {"Router", "Scope"} ->
         {matchable.children[i].name :
            i \in {j \in DOMAIN matchable.children :
                     matchable.children[j].constructor
                       \in {"Route", "Fallback"}}}
    [] OTHER -> {}

\* C30: match(routeName, matchable) is true exactly when routeName is among
\* the names reachable under matchable; the target of a Redirect, as the
\* matchable or among the entries of a Router or Scope, is not among them.
C30_MatchIsReachability ==
  CalledOp("match") =>
    (result.value <=>
       event.input.route \in ReachableNames(event.input.matchable))

C30_Witness ==
  /\ CalledOp("match")
  /\ event.input.route = "item"
  /\ event.input.matchable.constructor = "Scope"
  /\ Len(event.input.matchable.children) = 2
  /\ event.input.matchable.children[1].constructor = "Route"
  /\ event.input.matchable.children[1].name = "home"
  /\ event.input.matchable.children[2].constructor = "Redirect"
  /\ event.input.matchable.children[2].to = "item"
  /\ result.value = FALSE

(***************************************************************************)
(* C31: what a PUSH and a REPLACE that translate do to the history stack   *)
(***************************************************************************)
\* the step is a dispatch of an intent of one of the types whose payload
\* routeToLocation translates
Translates(types) ==
  /\ event'.op = "dispatch"
  /\ event'.input.type \in types
  /\ routeToLocation(router, event'.input.payload.route,
                     event'.input.payload.params,
                     event'.input.payload.hash).thrown = undefined

\* the translated location of the step's intent as the history writes it
Written ==
  createLocation(routeToLocation(router, event'.input.payload.route,
                                 event'.input.payload.params,
                                 event'.input.payload.hash).location,
                 entries[index])

\* C31 as stated: a PUSH that translates makes the history stack one entry
\* longer and the translated location current; a REPLACE that translates
\* keeps the number of entries and puts the translated location in the place
\* of the current entry.
C31_PushAddsOneEntry ==
  [][/\ Translates({PUSH})
        => /\ Len(entries') = Len(entries) + 1
           /\ entries'[index'] = Written
     /\ Translates({REPLACE})
        => /\ Len(entries') = Len(entries)
           /\ index' = index
           /\ entries'[index'] = Written]_vars

\* C31 amended: a PUSH that translates drops the entries after the current
\* one, appends one entry and makes it current, so the stack ends one past
\* the old position; a REPLACE that translates keeps the number of entries,
\* the position and every entry but the current one.  In both cases the
\* current entry is the translated location as the history writes it unless
\* the listener replaced it again for a Redirect.
C31_PushTruncatesAndAppends ==
  [][/\ Translates({PUSH})
        => /\ index' = index + 1
           /\ Len(entries') = index + 1
           /\ SubSeq(entries', 1, index) = SubSeq(entries, 1, index)
           /\ Len(calls') = 1 => entries'[index'] = Written
     /\ Translates({REPLACE})
        => /\ index' = index
           /\ Len(entries') = Len(entries)
           /\ \A i \in DOMAIN entries : i # index => entries'[i] = entries[i]
           /\ Len(calls') = 1 => entries'[index'] = Written]_vars

\* a PUSH to the item 1 from the home location has added the second entry
C31_Witness ==
  /\ Dispatched({PUSH})
  /\ Len(calls) = 1
  /\ calls[1].method = "push"
  /\ Len(entries) = 2
  /\ index = 2
  /\ entries[1].pathname = <<"">>
  /\ entries[2].pathname = <<"item", "1">>
  /\ entries[2].hash = "#h"
  /\ Len(dispatched) = 1
  /\ dispatched[1].action.type = ROUTE_CHANGED

(***************************************************************************)
(* C32: an OPEN that translates opens a new context and does nothing else  *)
(***************************************************************************)
\* the translated location of the step's intent
TranslatedLocation ==
  routeToLocation(router, event'.input.payload.route,
                  event'.input.payload.params,
                  event'.input.payload.hash).location

\* C32: an OPEN that translates hands window.open the href of the translated
\* location (its pathname, its search and its hash behind a '#') once, and
\* nothing else happens: the history's entries and position and the variable
\* previous are as before, the only history method called is createHref,
\* nothing is dispatched or handed to next and nothing is thrown.
C32_OpenOnlyOpens ==
  [][Translates({OPEN})
     => /\ opened' = << <<TranslatedLocation.pathname,
                           TranslatedLocation.search,
                           IF TranslatedLocation.hash \in {"", "#h"}
                           THEN TranslatedLocation.hash
                           ELSE "#h">> >>
        /\ entries' = entries
        /\ index' = index
        /\ previous' = previous
        /\ calls' = <<[method |-> "createHref", argument |-> TranslatedLocation]>>
        /\ dispatched' = <<>>
        /\ forwarded' = <<>>
        /\ thrown' = undefined]_vars

\* open('item', {id: '1'}, 'h') after a PUSH: '/item/1#h' was opened from the
\* second entry of the history
C32_Witness ==
  /\ Dispatched({OPEN})
  /\ opened = << << <<"item", "1">>, <<>>, "#h">> >>
  /\ index = 2
  /\ previous # undefined

(***************************************************************************)
(* C33: what the Match component renders                                   *)
(***************************************************************************)
\* the names a property route of a Match component lists
ListedNames(route) ==
  IF route.constructor = "Array"
  THEN {route.items[i] : i \in DOMAIN route.items}
  ELSE {route.value}

\* the first entry of the router that accepts the history's location exists
\* and its name is one of names
CurrentEntryNamed(names) ==
  /\ FirstMatch(router.children, entries[index].pathname) # 0
  /\ router.children[FirstMatch(router.children, entries[index].pathname)].name
       \in names

\* C33 as stated: after any sequence of location changes a Match component
\* renders its children exactly when the first entry that accepts the
\* history's current location exists and its name is among the names of the
\* component's property route, and renders nothing otherwise.
C33_MatchFollowsLocation ==
  \A route \in MatchRoutes :
    (Match(route, currentRoute) = childrenNode)
      <=> CurrentEntryNamed(ListedNames(route))

(***************************************************************************)
(* C34: which clicks on a Link dispatch its navigation intent              *)
(***************************************************************************)
\* the intent a link is configured for
ConfiguredIntent(link) ==
  [type |-> CASE link.action \in {undefinedStr, "push"} -> PUSH
              [] link.action = "replace" -> REPLACE
              [] link.action = "open" -> OPEN,
   payload |-> [route |-> link.route, params |-> link.params,
                hash |-> link.hash]]

\* the click is one the link handles itself: when the handler decides, that
\* is after the link's property onClick has run, the event is not
\* default-prevented, it is a click of the left button without a modifier
\* key, and the link's target is '_self' (also when none is given)
PlainClick(link, e) ==
  /\ ~e.defaultPrevented
  /\ link.onClick # "preventDefault"
  /\ e.button = 0
  /\ ~(e.metaKey \/ e.altKey \/ e.ctrlKey \/ e.shiftKey)
  /\ link.target \in {undefinedStr, "", "_self"}

\* C34: a click on a Link calls event.preventDefault once and dispatches the
\* intent the link is configured for (push when no action is given), with
\* the link's route, params and hash, exactly when the event is not
\* default-prevented at that point, the button is 0, no meta, alt, ctrl or
\* shift key is held and the link's target is '_self'; in every other case
\* the handler dispatches nothing, so the middleware does nothing.
C34_LinkDispatchesOnPlainClick ==
  event.op = "click"
  => IF PlainClick(event.input.link, event.input.event)
     THEN clicked = [preventDefault |-> 1,
                     dispatch |-> <<ConfiguredIntent(event.input.link)>>]
     ELSE /\ clicked = NoClick
          /\ dispatched = <<>>
          /\ forwarded = <<>>
          /\ calls = <<>>
          /\ opened = <<>>

\* a plain click on the link that replaces has taken the history to the item
C34_Witness ==
  /\ event.op = "click"
  /\ event.input.event = mockEvent
  /\ event.input.link.action = "replace"
  /\ clicked.preventDefault = 1
  /\ clicked.dispatch = <<replace("item", [k \in {"id"} |-> "1"], "h")>>
  /\ entries[index].pathname = <<"item", "1">>
  /\ Len(dispatched) = 1
  /\ dispatched[1].action.type = ROUTE_CHANGED

(***************************************************************************)
(* C35: the entries of a Router are fixed at its construction              *)
(***************************************************************************)
\* C35: no call adds, removes, reorders or modifies the children of a
\* Router or a Scope that exists, or any object they refer to: every object
\* built stays at its address as it is, whatever is called next, a
\* constructor, a translator, a helper or the middleware handling an event.
\* Scope(base, router) in particular leaves the router and its entries as
\* they are and returns new entries, those of the router under the base.
C35_EntriesAreFixed ==
  [][/\ \A a \in DOMAIN heap : a \in DOMAIN heap' /\ heap'[a] = heap[a]
     /\ (event'.op = "Scope" /\ thrown' = undefined)
        => /\ Deref(heap', event'.input.router)
                = Deref(heap, event'.input.router)
           /\ Deref(heap', Len(heap')).children
                = [i \in DOMAIN heap[event'.input.router].children |->
                     ScopeChild(event'.input.base,
                                Deref(heap, event'.input.router).children[i])]
           /\ \A i \in DOMAIN heap'[Len(heap')].children :
                heap'[Len(heap')].children[i] \notin DOMAIN heap]_vars

\* one router has been scoped under two bases: each Scope has the router's
\* entry under its own base and the router still has its own
C35_Witness ==
  \E r \in DOMAIN heap : \E s \in DOMAIN heap : \E t \in DOMAIN heap :
    /\ heap[r].constructor = "Router"
    /\ Deref(heap, r).children = <<Route("item", <<Param("id")>>)>>
    /\ heap[s].constructor = "Scope"
    /\ heap[t].constructor = "Scope"
    /\ Deref(heap, s).children = <<Route("item", <<Lit("user"), Param("id")>>)>>
    /\ Deref(heap, t).children = <<Route("item", <<Lit("shop"), Param("id")>>)>>
    /\ event.op = "Scope"
    /\ event.input.router = r

(***************************************************************************)
(* C36: one outcome for every location given to the listener               *)
(***************************************************************************)
\* the notifications the listener dispatched in the last event
ListenerDispatches ==
  {i \in DOMAIN dispatched :
     dispatched[i].action.type \in {ROUTE_CHANGED, LOCATION_NOT_MATCHED}}

\* the calls of history.replace the listener made in the last event: those
\* of the event but the one of a REPLACE intent
ListenerReplaces ==
  Cardinality({i \in DOMAIN calls : calls[i].method = "replace"})
  - (IF Dispatched({REPLACE}) /\ calls # <<>> THEN 1 ELSE 0)

\* C36 as stated: every location given to the binding's listener, by a
\* change of the history or by a SYNC, has exactly one outcome, a
\* ROUTE_CHANGED dispatched, a LOCATION_NOT_MATCHED dispatched or a
\* history.replace for a Redirect, and never two; and the history holds the
\* binding's listener exactly once.
C36_OneOutcomePerDelivery ==
  /\ Cardinality({i \in DOMAIN listeners : listeners[i] = "historyListener"}) = 1
  /\ Len(delivered) = Cardinality(ListenerDispatches) + ListenerReplaces
  /\ \A i \in DOMAIN delivered :
       Cardinality({j \in ListenerDispatches :
                      dispatched[j].cause = delivered[i]}) <= 1

(***************************************************************************)
(* C37: previous is the resolution of the current location                 *)
(***************************************************************************)
\* what a location resolves to: the payload of its ROUTE_CHANGED
Resolution(location) ==
  [route |-> locationToRoute(router, location).route.name,
   params |-> locationToRoute(router, location).params,
   hash |-> locationToRoute(router, location).hash]

\* the event gave a location to the listener and its last notification,
\* with nothing thrown after it, is a ROUTE_CHANGED
EndedInRouteChanged ==
  /\ delivered # <<>>
  /\ thrown = undefined
  /\ dispatched # <<>>
  /\ dispatched[Len(dispatched)].action.type = ROUTE_CHANGED

\* C37: in a binding where only the middleware dispatches ROUTE_CHANGED,
\* after an event that gave a location to the listener and ended in a
\* ROUTE_CHANGED the variable previous is what the history's current
\* location resolves to (route name, params and hash), and an event that
\* gives no location to the listener leaves previous, the entries and the
\* position as they are, so this stays so until the next location event.
C37_PreviousIsCurrentResolution ==
  [][/\ EndedInRouteChanged'
        => /\ locationToRoute(router, entries'[index']).thrown = undefined
           /\ previous' = Resolution(entries'[index'])
     /\ delivered' = <<>>
        => previous' = previous /\ entries' = entries /\ index' = index]_vars

\* '/product/2?q=1' was redirected: previous is the item 2 with q=1
C37_Witness ==
  /\ event.op = "replace"
  /\ Len(delivered) = 2
  /\ EndedInRouteChanged
  /\ entries[index].pathname = <<"item", "2">>
  /\ previous = [route |-> "item",
                 params |-> [k \in {"id", "q"} |-> IF k = "id" THEN "2" ELSE "1"],
                 hash |-> ""]

(***************************************************************************)
(* C38: a handler that navigates while a ROUTE_CHANGED is being forwarded  *)
(***************************************************************************)
\* in the last event the handler after the middleware was given a
\* ROUTE_CHANGED for the route it reacts to and dispatched its PUSH or
\* REPLACE, and that dispatch led to a ROUTE_CHANGED in turn
ReactedWithRouteChanged ==
  /\ reaction # NoReaction
  /\ thrown = undefined
  /\ Len(forwarded) = 2
  /\ forwarded[1].type = ROUTE_CHANGED
  /\ forwarded[1].payload.route = reaction.on
  /\ forwarded[2].type = ROUTE_CHANGED

\* C38: when the handler reacts to ROUTE_CHANGED(A) by dispatching a PUSH or
\* REPLACE while A is being forwarded, the ROUTE_CHANGED that results
\* carries A's payload as meta.previous, and when both dispatches have
\* returned the variable previous is the payload of that second
\* ROUTE_CHANGED, which is what the history's location resolves to.
C38_NestedNavigationChainsPrevious ==
  ReactedWithRouteChanged
  => /\ forwarded[2].meta.previous = forwarded[1].payload
     /\ previous = forwarded[2].payload
     /\ previous = Resolution(entries[index])

\* the handler reacted to the home route by pushing the item 1
C38_Witness ==
  /\ ReactedWithRouteChanged
  /\ reaction.intent.type = PUSH
  /\ forwarded[1].payload.route = "home"
  /\ forwarded[2].payload.route = "item"
  /\ forwarded[2].meta.previous.route = "home"
  /\ previous.route = "item"
  /\ entries[index].pathname = <<"item", "1">>

(***************************************************************************)
(* C39: entered and exited over the notifications of one binding           *)
(***************************************************************************)
\* for the notifications of type ROUTE_CHANGED of the step and every
\* matchable: not both entered and exited; entered only when the last
\* notification that satisfied one of the two, if any, satisfied exited;
\* exited only when it satisfied entered
AlternatesInStep ==
  \A i \in DOMAIN dispatched' :
    dispatched'[i].action.type = ROUTE_CHANGED =>
      \A m \in DOMAIN Matchables :
        /\ ~(/\ entered(Matchables[m], dispatched'[i].action)
             /\ exited(Matchables[m], dispatched'[i].action))
        /\ entered(Matchables[m], dispatched'[i].action)
           => m \notin FlagsAfter(flagged.open,
                                  SubSeq(ActionsOf(dispatched'), 1, i - 1))
        /\ exited(Matchables[m], dispatched'[i].action)
           => m \in FlagsAfter(flagged.open,
                               SubSeq(ActionsOf(dispatched'), 1, i - 1))

\* C39 as stated: for a fixed matchable, over the ROUTE_CHANGED
\* notifications one binding emits, none satisfies both entered and exited,
\* and those that satisfy entered and those that satisfy exited alternate
\* strictly, beginning with entered, also with LOCATION_NOT_MATCHED
\* notifications in between.
C39_EnteredAndExitedAlternate == [][AlternatesInStep]_vars

\* C39 amended: no notification satisfies both; the alternation holds as
\* long as every action of type ROUTE_CHANGED that has gone through the
\* middleware is one of its own notifications.
C39_AlternateWhileOnlyOwnNotifications ==
  [][/\ \A i \in DOMAIN dispatched' : \A m \in DOMAIN Matchables :
          ~(/\ entered(Matchables[m], dispatched'[i].action)
            /\ exited(Matchables[m], dispatched'[i].action))
     /\ ~flagged.foreign => AlternatesInStep]_vars

\* the binding has left 'item' for 'home' with nothing of the application
\* in between: the notification satisfies exited('item') and
\* entered('home'), and 'home' is the one entered last
C39_Witness ==
  /\ ~flagged.foreign
  /\ Len(dispatched) = 1
  /\ dispatched[1].action.type = ROUTE_CHANGED
  /\ exited(Matchables[2], dispatched[1].action)
  /\ entered(Matchables[1], dispatched[1].action)
  /\ 1 \in flagged.open
  /\ 2 \notin flagged.open

====
